---------------------------- MODULE Spec2Model ----------------------------
(***************************************************************************)
(* The journal entry store (the useJournal hook) in its three persistence  *)
(* variants:                                                               *)
(*   "local"  : src/src/lib/supabase.ts 79-211     (browser storage only)  *)
(*   "sync"   : src/src/hooks/useJournal.ts 60-317 (local + remote mirror) *)
(*   "remote" : src/src/hooks/useJournal.ts 373-613 (remote table of       *)
(*              record, authenticated)                                     *)
(*                                                                         *)
(* React state is modelled as it behaves: a setState call appends an       *)
(* update to the component's queue (pending); Render processes the queue   *)
(* and commits the result.  Handlers read the values of the last commit    *)
(* (their closures).  A functional updater runs at the setState call only  *)
(* when the queue is empty (React's eager state), otherwise at Render.     *)
(* Remote calls and file reads are operations in flight (net): the server  *)
(* handles one, later its continuation runs on the client.                 *)
(***************************************************************************)
EXTENDS Integers, Sequences, FiniteSets, TLC

VARIABLES
  variant,       \* "local" | "sync" | "remote": which hook is running
  supabase,      \* whether a remote client is configured
  user,          \* remote variant: the auth user's id, NoUser when signed out
  entries,       \* committed React state: the collection
  selectedId,    \* committed React state
  syncingCount,  \* committed React state (sync variant)
  syncError,     \* committed React state (sync variant)
  loading,       \* committed React state (remote variant)
  pending,       \* React's queue of state updates not yet rendered
  net,           \* remote calls and file reads in flight, in issue order
  remote,        \* the remote table: a set of rows
  now,           \* the clock, Date.now()
  nextId,        \* the next identifier generateId / the database hands out
  last,          \* the last step: which handler ran and what it returned
  lastEdit,      \* per entry id, the body of the user's last edit
  calls,         \* how many times the user has called a handler
  storage,       \* the localStorage slot 'journal-entries'
  editor         \* the Editor component: its entry, draft, timer, edits

vars == <<variant, supabase, user, entries, selectedId, syncingCount,
          syncError, loading, pending, net, remote, now, nextId, last,
          lastEdit, calls, storage, editor>>

-----------------------------------------------------------------------------
(* Bounds of the model *)

MaxTime == 2      \* the clock runs from 1 to MaxTime
MaxNet == 2       \* remote calls and file reads in flight at once
MaxCalls == 2     \* calls of the handlers by the user (and the auth provider)

(* JavaScript's null and undefined, the absent id and the absent user *)
Null == "null"
Undefined == "undefined"
NoId == 0
NoUser == 0

(* Bodies are strings: sequences of characters *)
B0 == << >>
B1 == <<"a">>
B2 == <<"a", " ", "b">>
Bodies == {B0, B1, B2}

Moods == {"happy", "calm", "sad", "anxious", "excited", "grateful"}

-----------------------------------------------------------------------------
(* Pure helpers *)

IsSpace(c) == c = " "

RECURSIVE TrimStart(_)
TrimStart(s) ==
  IF s = << >> THEN s
  ELSE IF IsSpace(Head(s)) THEN TrimStart(Tail(s)) ELSE s

RECURSIVE TrimEnd(_)
TrimEnd(s) ==
  IF s = << >> THEN s
  ELSE IF IsSpace(s[Len(s)]) THEN TrimEnd(SubSeq(s, 1, Len(s) - 1)) ELSE s

Trim(s) == TrimEnd(TrimStart(s))

(* text.split(/\s+/): the pieces between maximal runs of whitespace; the    *)
(* empty string splits into one empty piece.                                *)
RECURSIVE SplitWs(_, _)
SplitWs(s, cur) ==
  IF s = << >> THEN <<cur>>
  ELSE IF IsSpace(Head(s))
       THEN <<cur>> \o SplitWs(TrimStart(s), << >>)
       ELSE SplitWs(Tail(s), Append(cur, Head(s)))

RECURSIVE FilterBoolean(_)
FilterBoolean(ps) ==
  IF ps = << >> THEN << >>
  ELSE IF Head(ps) = << >> THEN FilterBoolean(Tail(ps))
       ELSE <<Head(ps)>> \o FilterBoolean(Tail(ps))

countWords(text) == Len(FilterBoolean(SplitWs(Trim(text), << >>)))

(* The comparator (a, b) => b.createdAt - a.createdAt is <= 0, so that a    *)
(* stays before b; a missing createdAt makes it NaN, which sort treats as 0 *)
KeepsBefore(a, b) ==
  IF "createdAt" \in DOMAIN a /\ "createdAt" \in DOMAIN b
  THEN a.createdAt >= b.createdAt
  ELSE TRUE

(* Insert e into a sorted list after every element that may stay before it *)
RECURSIVE InsertSorted(_, _)
InsertSorted(e, list) ==
  IF list = << >> THEN <<e>>
  ELSE IF KeepsBefore(Head(list), e)
       THEN <<Head(list)>> \o InsertSorted(e, Tail(list))
       ELSE <<e>> \o list

(* [...list].sort((a, b) => b.createdAt - a.createdAt): a stable sort, the  *)
(* elements are inserted in list order so that equal keys keep their order  *)
RECURSIVE SortByCreatedAtDesc(_)
SortByCreatedAtDesc(list) ==
  IF list = << >> THEN << >>
  ELSE LET n == Len(list)
       IN  InsertSorted(list[n], SortByCreatedAtDesc(SubSeq(list, 1, n - 1)))

sortEntries(list) == SortByCreatedAtDesc(list)

Ids(list) == {list[i].id : i \in 1..Len(list)}

RECURSIVE FilterOutId(_, _)
FilterOutId(list, id) ==
  IF list = << >> THEN << >>
  ELSE IF Head(list).id = id THEN FilterOutId(Tail(list), id)
       ELSE <<Head(list)>> \o FilterOutId(Tail(list), id)

(* list.filter(e => !existingIds.has(e.id)): an element without an id is   *)
(* kept, undefined being no member of the set of ids                        *)
RECURSIVE FilterNotIn(_, _)
FilterNotIn(list, ids) ==
  IF list = << >> THEN << >>
  ELSE IF "id" \in DOMAIN Head(list) /\ Head(list).id \in ids
       THEN FilterNotIn(Tail(list), ids)
       ELSE <<Head(list)>> \o FilterNotIn(Tail(list), ids)

Get(r, k, default) == IF k \in DOMAIN r THEN r[k] ELSE default

Has(r, k) == k \in DOMAIN r

Max(a, b) == IF a >= b THEN a ELSE b

-----------------------------------------------------------------------------
(* Entries *)

EntryKeys ==
  {"id", "title", "body", "mood", "tags", "createdAt", "updatedAt", "wordCount"}

(* An entry without a mood has mood Undefined *)
Entry(id, title, body, mood, tags, createdAt, updatedAt, wordCount) ==
  [id |-> id, title |-> title, body |-> body, mood |-> mood, tags |-> tags,
   createdAt |-> createdAt, updatedAt |-> updatedAt, wordCount |-> wordCount]

(* generateId: the clock and a random suffix; the suffixes are taken never  *)
(* to repeat, so the identifier is a fresh one                              *)
generateId == nextId

(* hydrateEntry(entry): every missing field gets its default; a wordCount   *)
(* the record carries is kept.  id and t are generateId() and Date.now().   *)
hydrateEntry(entry, id, t) ==
  LET safeBody == Get(entry, "body", B0)
      created == Get(entry, "createdAt", t)
  IN  Entry(Get(entry, "id", id),
            Get(entry, "title", ""),
            safeBody,
            Get(entry, "mood", Undefined),
            Get(entry, "tags", << >>),
            created,
            Get(entry, "updatedAt", created),
            Get(entry, "wordCount", countWords(safeBody)))

(* list.map(hydrateEntry): each call of generateId gives another id *)
HydrateAll(list, id, t) ==
  [i \in 1..Len(list) |-> hydrateEntry(list[i], id + i - 1, t)]

(* How many ids hydrating list takes from generateId *)
IdsTaken(list) ==
  IF \E i \in 1..Len(list) : ~Has(list[i], "id") THEN Len(list) ELSE 0

(* A merge that keeps the entry's old wordCount: what C11 must tell from   *)
(* the code                                                                 *)
MergeUpdateStaleCount(entry, updates, t) ==
  [k \in DOMAIN entry \cup DOMAIN updates \cup {"updatedAt"} |->
     CASE k = "updatedAt" -> t
       [] k \in DOMAIN updates -> updates[k]
       [] OTHER -> entry[k]]

(* { ...entry, ...updates, wordCount: countWords(updates.body ?? entry.body), *)
(*   updatedAt: Date.now() }                                                  *)
MergeUpdate(entry, updates, t) ==
  LET newBody == Get(updates, "body", entry.body)
  IN  [k \in DOMAIN entry \cup DOMAIN updates \cup {"wordCount", "updatedAt"} |->
         CASE k = "wordCount" -> countWords(newBody)
           [] k = "updatedAt" -> t
           [] k \in DOMAIN updates -> updates[k]
           [] OTHER -> entry[k]]

(* The remote variant's merge: wordCount: newWordCount ?? entry.wordCount *)
MergeUpdateRemote(entry, updates, t) ==
  [k \in DOMAIN entry \cup DOMAIN updates \cup {"wordCount", "updatedAt"} |->
     CASE k = "wordCount" ->
            IF Has(updates, "body") THEN countWords(updates.body)
            ELSE entry.wordCount
       [] k = "updatedAt" -> t
       [] k \in DOMAIN updates -> updates[k]
       [] OTHER -> entry[k]]

(* An update that adds an entry when none has the id (an upsert): what C12 *)
(* must tell from the code                                                  *)
MapUpdateOrAdd(list, id, updates, t) ==
  IF id \in Ids(list)
  THEN [i \in 1..Len(list) |->
          IF list[i].id # id THEN list[i] ELSE MergeUpdate(list[i], updates, t)]
  ELSE <<hydrateEntry([id |-> id] @@ updates, id, t)>> \o list

MapUpdate(list, id, updates, t) ==
  [i \in 1..Len(list) |->
     IF list[i].id # id THEN list[i] ELSE MergeUpdate(list[i], updates, t)]

MapUpdateRemote(list, id, updates, t) ==
  [i \in 1..Len(list) |->
     IF list[i].id # id THEN list[i] ELSE MergeUpdateRemote(list[i], updates, t)]

(* The entry the updater of the sync variant leaves in updatedEntry: the    *)
(* merge of the last entry of the list with that id; << >> for null         *)
UpdatedEntryOf(list, id, updates, t) ==
  LET hits == {i \in 1..Len(list) : list[i].id = id}
  IN  IF hits = {} THEN << >>
      ELSE LET i == CHOOSE j \in hits : \A k \in hits : k <= j
           IN  <<MergeUpdate(list[i], updates, t)>>

-----------------------------------------------------------------------------
(* React state: the committed values and the queue of updates *)

Committed ==
  [entries |-> entries, selectedId |-> selectedId,
   syncingCount |-> syncingCount, syncError |-> syncError, loading |-> loading]

U(kind, arg) == [kind |-> kind, arg |-> arg]

startSync(count) == count + 1

endSync(count) == Max(0, count - 1)

(* One queued update applied to the state st; t is Date.now() when the      *)
(* updater runs: the time of the call when it ran eagerly, else of Render   *)
ApplyUpdate(st, u, t) ==
  LET a == u.arg
      at == IF u.kind \in {"updateSync", "updateLocal", "updateRemote"} /\ a.eager
            THEN a.t ELSE t
  IN  CASE u.kind = "createSync" ->
             [st EXCEPT !.entries = sortEntries(<<a>> \o st.entries)]
        [] u.kind = "createPrepend" ->
             [st EXCEPT !.entries = <<a>> \o st.entries]
        [] u.kind = "updateSync" ->
             [st EXCEPT !.entries =
                sortEntries(MapUpdate(st.entries, a.id, a.updates, at))]
        [] u.kind = "updateLocal" ->
             [st EXCEPT !.entries = MapUpdate(st.entries, a.id, a.updates, at)]
        [] u.kind = "updateRemote" ->
             [st EXCEPT !.entries =
                MapUpdateRemote(st.entries, a.id, a.updates, at)]
        [] u.kind = "delete" ->
             [st EXCEPT !.entries = FilterOutId(st.entries, a)]
        [] u.kind = "importSync" ->
             [st EXCEPT !.entries = sortEntries(a \o st.entries)]
        [] u.kind = "importSort" ->
             [st EXCEPT !.entries = SortByCreatedAtDesc(a \o st.entries)]
        [] u.kind = "setEntries" -> [st EXCEPT !.entries = a]
        [] u.kind = "setSelectedId" -> [st EXCEPT !.selectedId = a]
        [] u.kind = "startSync" ->
             [st EXCEPT !.syncingCount = startSync(st.syncingCount)]
        [] u.kind = "endSync" ->
             [st EXCEPT !.syncingCount = endSync(st.syncingCount)]
        [] u.kind = "setSyncError" -> [st EXCEPT !.syncError = a]
        [] u.kind = "setLoading" -> [st EXCEPT !.loading = a]

RECURSIVE ApplyAll(_, _, _)
ApplyAll(st, q, t) ==
  IF q = << >> THEN st ELSE ApplyAll(ApplyUpdate(st, Head(q), t), Tail(q), t)

(* The state the next Render commits if it ran now *)
Effective == ApplyAll(Committed, pending, now)

(* React computes an updater at the setState call only when the component   *)
(* has no update queued                                                     *)
EagerState == pending = << >>

-----------------------------------------------------------------------------
(* Operations in flight and the remote table *)

Op(kind, id, data, cap) ==
  [kind |-> kind, phase |-> "sent", id |-> id, data |-> data, cap |-> cap,
   res |-> << >>]

RemoveAt(q, i) == SubSeq(q, 1, i - 1) \o SubSeq(q, i + 1, Len(q))

NoStep == [op |-> "none", id |-> NoId, ret |-> << >>]

Step(op, id, ret) == [op |-> op, id |-> id, ret |-> ret]

(* The rows of a table in some order that select(...).order(createdAt,      *)
(* descending) may return: rows with equal keys come in any order          *)
OrderedRows(rows) ==
  {q \in [1..Cardinality(rows) -> rows] :
     /\ \A i, j \in 1..Cardinality(rows) : i # j => q[i] # q[j]
     /\ \A i, j \in 1..Cardinality(rows) :
          i < j => q[i].createdAt >= q[j].createdAt}

RowIds(rows) == {r.id : r \in rows}

HasRepeatedId(list) ==
  \E i, j \in 1..Len(list) : i # j /\ list[i].id = list[j].id

(* upsert(list, { onConflict: 'id' }): each row replaces the row of its id *)
UpsertRows(rows, list) ==
  {r \in rows : r.id \notin Ids(list)} \cup {list[i] : i \in 1..Len(list)}

-----------------------------------------------------------------------------
(* What the model is started with and fed *)

MissingId == 99

(* An entry a previous session left in local storage *)
E0 == Entry(1, "t", B1, Undefined, << >>, 1, 1, 1)

Snapshots == {<< >>, <<E0>>}

(* The updates the editor and its callers pass to updateEntry *)
UpdateInputs ==
  {[body |-> B2],
   [title |-> "t", body |-> B1, mood |-> "calm", tags |-> <<"x">>]}

(* The updates the editor passes in the remote variant: it always passes    *)
(* the mood, undefined when the user has cleared it                         *)
UpdateInputsRemote ==
  {[body |-> B2],
   [title |-> "t", body |-> B1, mood |-> Undefined, tags |-> <<"x">>]}

(* Records of import files: a full entry written at time 2 (by a machine    *)
(* whose clock may be ahead), and one written by another tool, which        *)
(* carries a wordCount of its own, a mood outside the six and no timestamps *)
RFull == Entry(50, "t", B1, "happy", <<"x">>, 2, 2, 1)
RStale == [id |-> 51, body |-> B2, wordCount |-> 5, mood |-> "angry"]

(* JSON.stringify of an entry and JSON.parse of the text: a field whose     *)
(* value is undefined is not written, so the parsed record lacks it         *)
JsonOf(entry) ==
  [k \in {f \in DOMAIN entry : ~(f = "mood" /\ entry[f] = Undefined)} |->
     entry[k]]

(* exportData: the records of the file JSON.stringify(entries) makes *)
exportData(list) == [i \in 1..Len(list) |-> JsonOf(list[i])]

(* A file: whether its text parses to an array, and the array's records *)
File(records) == [array |-> TRUE, records |-> records]

Malformed == [array |-> FALSE, records |-> << >>]

Files ==
  {File(<<RFull, RFull>>), File(<<RStale>>), File(exportData(<<E0, RFull>>)),
   Malformed}

(* An array element that is no entry record: an object with none of the     *)
(* fields of an entry (a number or a string reads the same: every field is  *)
(* undefined)                                                               *)
NotARecord == [foo |-> "bar"]

(* The files the sync variant is given; the other variants' handling of     *)
(* elements without an id is left out                                       *)
FilesSync == Files \cup {File(<<NotARecord>>)}

FilesFor(v) == IF v = "sync" THEN FilesSync ELSE Files

IsArray(file) == file.array

CanCall == calls < MaxCalls

(* The value of the localStorage slot: whether JSON.parse accepts it, and   *)
(* what it parses to                                                        *)
Stored(list) == [parses |-> TRUE, value |-> exportData(list)]

(* A slot whose text JSON.parse throws on *)
Garbled == [parses |-> FALSE, value |-> << >>]

(* A persist effect that writes nothing: what C23 must tell from the code *)
PersistNothing(list) == storage

(* localStorage.setItem(STORAGE_KEY, JSON.stringify(entries)), the effect   *)
(* that runs after a render                                                 *)
Persist(list) == Stored(list)

(* The Editor before an entry is shown: no entry, empty fields, no timer,   *)
(* and no edit waiting to be saved                                          *)
NoEditor ==
  [id |-> NoId, title |-> "", body |-> B0, mood |-> Undefined, tags |-> << >>,
   timer |-> FALSE, edited |-> {}, edits |-> 0]

-----------------------------------------------------------------------------
(* Initial states *)

(* local: useState(() => JSON.parse(localStorage...)), nothing in flight *)
InitLocal ==
  /\ variant = "local" /\ supabase = FALSE /\ user = NoUser
  /\ entries \in Snapshots
  /\ selectedId = NoId /\ syncingCount = 0 /\ syncError = Null
  /\ loading = FALSE
  /\ pending = << >> /\ net = << >> /\ remote = {}
  /\ now = 1 /\ nextId = 2 /\ last = NoStep /\ lastEdit = << >> /\ calls = 0
  /\ storage = Stored(entries) /\ editor = NoEditor

(* sync: the same, and with a client configured the mount effect has called *)
(* refreshEntries: startSync is queued and the select is in flight          *)
InitSync ==
  /\ variant = "sync" /\ supabase = TRUE /\ user = NoUser
  /\ entries \in Snapshots
  /\ selectedId = NoId /\ syncingCount = 0 /\ syncError = Null
  /\ loading = FALSE
  /\ pending = IF supabase THEN <<U("startSync", 0)>> ELSE << >>
  /\ net = IF supabase THEN <<Op("select", NoId, << >>, << >>)>> ELSE << >>
  /\ remote \in {{}, {entries[i] : i \in 1..Len(entries)}}
  /\ now = 1 /\ nextId = 2 /\ last = NoStep /\ lastEdit = << >> /\ calls = 0
  /\ storage = Stored(entries) /\ editor = NoEditor

-----------------------------------------------------------------------------
(* The handlers of the local and sync variants *)

(* A createEntry that leaves the insertion into the collection to the       *)
(* insert's response handler: what C1 must tell from the code              *)
CreateUpdatesAfterInsert(newEntry) ==
  <<U("setSelectedId", newEntry.id)>>
  \o (IF supabase THEN <<U("startSync", 0)>> ELSE << >>)

(* What createEntry queues before it issues the insert: setEntries,         *)
(* setSelectedId and, with a client, startSync (useJournal.ts 145-149;      *)
(* supabase.ts 109-110 prepends without sorting)                            *)
CreateUpdates(newEntry) ==
  <<U(IF variant = "sync" THEN "createSync" ELSE "createPrepend", newEntry),
    U("setSelectedId", newEntry.id)>>
  \o (IF supabase THEN <<U("startSync", 0)>> ELSE << >>)

(* createEntry: supabase.ts 99-112, useJournal.ts 135-165.  Date.now() is   *)
(* read twice, for createdAt and for updatedAt; the clock may tick between. *)
CreateEntry ==
  /\ variant \in {"local", "sync"}
  /\ CanCall
  /\ supabase => Len(net) < MaxNet
  /\ \E t2 \in {now, now + 1} :
       /\ t2 <= MaxTime
       /\ LET newEntry == Entry(generateId, "", B0, Undefined, << >>, now, t2, 0)
          IN  /\ pending' = pending \o CreateUpdates(newEntry)
              /\ net' = IF supabase
                        THEN Append(net, Op("insert", newEntry.id, newEntry, << >>))
                        ELSE net
              /\ last' = Step("createEntry", newEntry.id, <<newEntry>>)
       /\ now' = t2
  /\ nextId' = nextId + 1
  /\ calls' = calls + 1
  /\ UNCHANGED <<editor, storage, variant, supabase, user, entries, selectedId, syncingCount,
                 syncError, loading, remote, lastEdit>>

(* The ids a caller can hold: of an entry it was rendered, of one queued,   *)
(* or of one that is gone                                                   *)
CallerIds == Ids(entries) \cup Ids(Effective.entries) \cup {MissingId}

NoteEdit(id, updates) ==
  IF id \in Ids(Effective.entries) /\ Has(updates, "body")
  THEN [i \in DOMAIN lastEdit \cup {id} |->
          IF i = id THEN updates.body ELSE lastEdit[i]]
  ELSE lastEdit

(* updateEntry: supabase.ts 114-125, useJournal.ts 167-200.  In the sync    *)
(* variant the remote update is issued only if the updater has already run  *)
(* and found the entry (updatedEntry is set).                               *)
UpdateEntryRuns(id, updates) ==
  /\ variant \in {"local", "sync"}
  /\ supabase => Len(net) < MaxNet
  /\ LET eager == EagerState
         updatedEntry == IF eager
                         THEN UpdatedEntryOf(entries, id, updates, now)
                         ELSE << >>
         issue == supabase /\ updatedEntry # << >>
         arg == [id |-> id, updates |-> updates, eager |-> eager, t |-> now]
     IN  /\ pending' = pending
              \o <<U(IF variant = "sync" THEN "updateSync" ELSE "updateLocal", arg)>>
              \o (IF issue THEN <<U("startSync", 0)>> ELSE << >>)
         /\ net' = IF issue
                   THEN Append(net, Op("update", id, updatedEntry[1], << >>))
                   ELSE net
  /\ last' = Step("updateEntry", id, << >>)
  /\ lastEdit' = NoteEdit(id, updates)
  /\ UNCHANGED <<storage, variant, supabase, user, entries, selectedId, syncingCount,
                 syncError, loading, remote, now, nextId>>

(* updateEntry called by a user of the hook *)
UpdateEntry(id, updates) ==
  /\ CanCall
  /\ UpdateEntryRuns(id, updates)
  /\ calls' = calls + 1
  /\ UNCHANGED editor

(* deleteEntry: supabase.ts 127-132, useJournal.ts 202-224.  selectedId is  *)
(* the value of the render that made the callback.                          *)
DeleteEntry(id) ==
  /\ variant \in {"local", "sync"}
  /\ CanCall
  /\ supabase => Len(net) < MaxNet
  /\ pending' = pending
        \o <<U("delete", id)>>
        \o (IF selectedId = id THEN <<U("setSelectedId", NoId)>> ELSE << >>)
        \o (IF supabase THEN <<U("startSync", 0)>> ELSE << >>)
  /\ net' = IF supabase THEN Append(net, Op("delete", id, << >>, << >>)) ELSE net
  /\ last' = Step("deleteEntry", id, << >>)
  /\ calls' = calls + 1
  /\ UNCHANGED <<editor, storage, variant, supabase, user, entries, selectedId, syncingCount,
                 syncError, loading, remote, now, nextId, lastEdit>>

(* setSelectedId(id): the sidebar selects an entry it lists *)
SetSelectedId(id) ==
  /\ CanCall
  /\ id # selectedId
  /\ pending' = Append(pending, U("setSelectedId", id))
  /\ last' = Step("setSelectedId", id, << >>)
  /\ calls' = calls + 1
  /\ UNCHANGED <<editor, storage, variant, supabase, user, entries, selectedId, syncingCount,
                 syncError, loading, net, remote, now, nextId, lastEdit>>

(* refreshEntries: useJournal.ts 105-122, called by the Retry button that   *)
(* Index shows while syncError is set (and by the mount effect, see Init)   *)
RefreshEntries ==
  /\ variant = "sync" /\ supabase
  /\ CanCall
  /\ syncError # Null
  /\ Len(net) < MaxNet
  /\ pending' = Append(pending, U("startSync", 0))
  /\ net' = Append(net, Op("select", NoId, << >>, <<"Retry">>))
  /\ last' = Step("refreshEntries", NoId, << >>)
  /\ calls' = calls + 1
  /\ UNCHANGED <<editor, storage, variant, supabase, user, entries, selectedId, syncingCount,
                 syncError, loading, remote, now, nextId, lastEdit>>

(* importData(file): supabase.ts 168-189, useJournal.ts 260-292.  The file  *)
(* read starts; onload will use the entries of the render that made the     *)
(* callback.                                                                *)
ImportData(file) ==
  /\ variant \in {"local", "sync"}
  /\ calls < MaxCalls
  /\ Len(net) < MaxNet
  /\ net' = Append(net, Op("readFile", NoId, file, Ids(entries)))
  /\ last' = Step("importData", NoId, << >>)
  /\ calls' = calls + 1
  /\ UNCHANGED <<editor, storage, variant, supabase, user, entries, selectedId, syncingCount,
                 syncError, loading, pending, remote, now, nextId, lastEdit>>

(* React renders: the queued updates are processed in order and committed *)
RenderStore ==
  /\ pending # << >>
  /\ LET st == Effective
     IN  /\ entries' = st.entries
         /\ selectedId' = st.selectedId
         /\ syncingCount' = st.syncingCount
         /\ syncError' = st.syncError
         /\ loading' = st.loading
  /\ pending' = << >>
  /\ last' = NoStep
  /\ storage' = IF variant = "remote" THEN storage ELSE Persist(Effective.entries)
  /\ UNCHANGED <<variant, supabase, user, net, remote, now, nextId, lastEdit,
                 calls>>

(* A render of the hook alone *)
Render == RenderStore /\ UNCHANGED editor

(* A millisecond passes *)
Tick ==
  /\ now < MaxTime
  /\ now' = now + 1
  /\ last' = NoStep
  /\ UNCHANGED <<editor, storage, variant, supabase, user, entries, selectedId, syncingCount,
                 syncError, loading, pending, net, remote, nextId, lastEdit, calls>>

-----------------------------------------------------------------------------
(* The remote table of the sync variant and the network *)

SyncKinds == {"insert", "update", "delete", "select", "upsert"}

(* JSON.stringify drops a key whose value is undefined: an update whose     *)
(* payload has no mood leaves the mood column as it is                      *)
UpdateRow(row, data) ==
  [k \in DOMAIN row |->
     IF k = "mood" /\ data.mood = Undefined THEN row.mood ELSE data[k]]

(* The table after the server has carried out op; Failed when it refuses *)
Refuses(op, rows) ==
  \/ op.kind = "insert" /\ op.id \in RowIds(rows)
  \/ op.kind = "upsert" /\ HasRepeatedId(op.data)

TableAfter(op, rows) ==
  CASE op.kind = "insert" -> rows \cup {op.data}
    [] op.kind = "update" ->
         {IF r.id = op.id THEN UpdateRow(r, op.data) ELSE r : r \in rows}
    [] op.kind = "delete" -> {r \in rows : r.id # op.id}
    [] op.kind = "upsert" -> UpsertRows(rows, op.data)
    [] OTHER -> rows

(* The server carries out a call of the sync variant and answers *)
ServerHandle(i) ==
  /\ i \in 1..Len(net)
  /\ net[i].phase = "sent"
  /\ net[i].kind \in SyncKinds
  /\ ~Refuses(net[i], remote)
  /\ remote' = TableAfter(net[i], remote)
  /\ \E q \in OrderedRows(remote) :
       net' = [net EXCEPT ![i].phase = "ok",
                          ![i].res = IF net[i].kind = "select" THEN q ELSE << >>]
  /\ last' = NoStep
  /\ UNCHANGED <<editor, storage, variant, supabase, user, entries, selectedId, syncingCount,
                 syncError, loading, pending, now, nextId, lastEdit, calls>>

(* A call fails: the server refuses it or the network loses it; a file read *)
(* fails (reader.onerror).  Nothing is changed on the server.               *)
Fail(i) ==
  /\ i \in 1..Len(net)
  /\ net[i].phase = "sent"
  /\ net' = [net EXCEPT ![i].phase = "err"]
  /\ last' = NoStep
  /\ UNCHANGED <<editor, storage, variant, supabase, user, entries, selectedId, syncingCount,
                 syncError, loading, pending, remote, now, nextId, lastEdit, calls>>

-----------------------------------------------------------------------------
(* The continuations of the sync variant: what runs when a call settles *)

ErrorText(kind) ==
  CASE kind = "insert" -> "Failed to save entry to Supabase."
    [] kind = "update" -> "Failed to update entry on Supabase."
    [] kind = "delete" -> "Failed to delete entry on Supabase."
    [] OTHER -> "Unable to sync with Supabase. Showing cached entries."

(* Response handlers that drop the error of a failed call: what C3 must    *)
(* tell from the code                                                       *)
MirrorSettledSilent(op) ==
  <<U("setSyncError", Null), U("endSync", 0)>>

(* .then(({ error }) => ...).finally(() => endSync()) of createEntry,       *)
(* updateEntry and deleteEntry                                              *)
MirrorSettled(op) ==
  <<U("setSyncError", IF op.phase = "err" THEN ErrorText(op.kind) ELSE Null),
    U("endSync", 0)>>

(* A refresh that takes the response only while the collection is empty:   *)
(* a guard, which C7 must tell from the code                                *)
RefreshSettledGuarded(op) ==
  IF op.phase = "err"
  THEN <<U("setSyncError", ErrorText("select")), U("endSync", 0)>>
  ELSE (IF entries = << >>
        THEN <<U("setEntries", sortEntries(HydrateAll(op.res, generateId, now)))>>
        ELSE << >>)
       \o <<U("setSyncError", Null), U("endSync", 0)>>

(* refreshEntries after the await: try / catch / finally *)
RefreshSettled(op) ==
  IF op.phase = "err"
  THEN <<U("setSyncError", ErrorText("select")), U("endSync", 0)>>
  ELSE <<U("setEntries", sortEntries(HydrateAll(op.res, generateId, now))),
         U("setSyncError", Null),
         U("endSync", 0)>>

(* An import whose endSync is not in a finally block, so that a failed     *)
(* upsert skips it: what C4 must tell from the code                         *)
UpsertSettledNoFinally(op) ==
  IF op.phase = "err"
  THEN << >>
  ELSE <<U("endSync", 0), U("importSync", op.cap)>>

(* importData after the awaited upsert: finally endSync(), then the merge   *)
(* of the entries that were new when the import was called, or the throw    *)
UpsertSettled(op) ==
  IF op.phase = "err"
  THEN <<U("endSync", 0)>>
  ELSE <<U("endSync", 0), U("importSync", op.cap)>>

SettleSync(i) ==
  /\ variant = "sync"
  /\ i \in 1..Len(net)
  /\ net[i].phase \in {"ok", "err"}
  /\ net[i].kind \in SyncKinds
  /\ LET op == net[i]
     IN  /\ pending' = pending \o
              (CASE op.kind = "select" -> RefreshSettled(op)
                 [] op.kind = "upsert" -> UpsertSettled(op)
                 [] OTHER -> MirrorSettled(op))
         /\ last' =
              IF op.kind # "upsert" THEN NoStep
              ELSE IF op.phase = "err" THEN Step("importRejected", NoId, << >>)
              ELSE Step("importResolved", NoId, <<Len(op.cap)>>)
  /\ net' = RemoveAt(net, i)
  /\ UNCHANGED <<editor, storage, variant, supabase, user, entries, selectedId, syncingCount,
                 syncError, loading, remote, now, nextId, lastEdit, calls>>

(* reader.onload of the sync variant, up to the await or to the end *)
FileLoadedSync(i) ==
  /\ variant = "sync"
  /\ i \in 1..Len(net)
  /\ net[i].kind = "readFile" /\ net[i].phase = "sent"
  /\ LET op == net[i]
         hydrated == HydrateAll(op.data.records, generateId, now)
         newEntries == FilterNotIn(hydrated, op.cap)
     IN  IF ~IsArray(op.data)
         THEN /\ net' = RemoveAt(net, i)
              /\ pending' = pending
              /\ last' = Step("importRejected", NoId, << >>)
         ELSE IF supabase /\ Len(hydrated) > 0
         THEN /\ net' = Append(RemoveAt(net, i),
                               Op("upsert", NoId, hydrated, newEntries))
              /\ pending' = Append(pending, U("startSync", 0))
              /\ last' = NoStep
         ELSE /\ net' = RemoveAt(net, i)
              /\ pending' = Append(pending, U("importSync", newEntries))
              /\ last' = Step("importResolved", NoId, <<Len(newEntries)>>)
  /\ nextId' = IF IsArray(net[i].data)
               THEN nextId + IdsTaken(net[i].data.records) ELSE nextId
  /\ UNCHANGED <<editor, storage, variant, supabase, user, entries, selectedId, syncingCount,
                 syncError, loading, remote, now, lastEdit, calls>>

(* reader.onload of the local variant: the records are merged as they are *)
FileLoadedLocal(i) ==
  /\ variant = "local"
  /\ i \in 1..Len(net)
  /\ net[i].kind = "readFile" /\ net[i].phase = "sent"
  /\ LET op == net[i]
         newEntries == FilterNotIn(op.data.records, op.cap)
     IN  IF ~IsArray(op.data)
         THEN /\ pending' = pending
              /\ last' = Step("importRejected", NoId, << >>)
         ELSE /\ pending' = Append(pending, U("importSort", newEntries))
              /\ last' = Step("importResolved", NoId, <<Len(newEntries)>>)
  /\ net' = RemoveAt(net, i)
  /\ UNCHANGED <<editor, storage, variant, supabase, user, entries, selectedId, syncingCount,
                 syncError, loading, remote, now, nextId, lastEdit, calls>>

(* reader.onerror: the promise rejects *)
FileFailed(i) ==
  /\ i \in 1..Len(net)
  /\ net[i].kind = "readFile" /\ net[i].phase = "err"
  /\ net' = RemoveAt(net, i)
  /\ last' = Step("importRejected", NoId, << >>)
  /\ UNCHANGED <<editor, storage, variant, supabase, user, entries, selectedId, syncingCount,
                 syncError, loading, pending, remote, now, nextId, lastEdit, calls>>

-----------------------------------------------------------------------------
(* The remote variant: useJournal.ts 373-613.  Rows carry the owner's id;   *)
(* row-level security lets a request see and write only the rows of the     *)
(* user it was sent by.                                                     *)

Row(entry, owner) ==
  [k \in EntryKeys \cup {"user_id"} |-> IF k = "user_id" THEN owner ELSE entry[k]]

(* The mapping of a row to an entry (useJournal.ts 401-410, 440-449) *)
RowToEntry(row) == [k \in EntryKeys |-> row[k]]

RowsToEntries(rows) == [i \in 1..Len(rows) |-> RowToEntry(rows[i])]

RemoteKinds == {"raSelect", "raInsert", "raUpdate", "raDelete", "raImport"}

(* The row the table's defaults make of an inserted record: a fresh id,     *)
(* created_at = updated_at = now(), and the column defaults                 *)
InsertedRow(record, owner, id, t) ==
  Row(Entry(id,
            Get(record, "title", ""),
            Get(record, "body", B0),
            Get(record, "mood", Undefined),
            Get(record, "tags", << >>),
            t, t,
            Get(record, "wordCount", 0)),
      owner)

(* dbUpdates of updateEntry: only the fields that are not undefined, and    *)
(* word_count when the body is given                                        *)
DbUpdates(updates) ==
  LET sent == {k \in DOMAIN updates \cap {"title", "body", "mood", "tags"} :
                 ~(k = "mood" /\ updates[k] = Undefined)}
  IN  [k \in sent \cup (IF Has(updates, "body") THEN {"wordCount"} ELSE {}) |->
         IF k = "wordCount" THEN countWords(updates.body) ELSE updates[k]]

(* The row after UPDATE ... SET dbUpdates; the trigger sets updated_at *)
UpdatedRow(row, dbUpdates, t) ==
  [k \in DOMAIN row |->
     IF k = "updatedAt" THEN t
     ELSE IF k \in DOMAIN dbUpdates THEN dbUpdates[k] ELSE row[k]]

InitRemote ==
  /\ variant = "remote" /\ supabase = TRUE
  /\ user \in {NoUser, 1}
  /\ entries = << >>
  /\ selectedId = NoId /\ syncingCount = 0 /\ syncError = Null
  /\ loading = TRUE
  /\ pending = IF user = NoUser
               THEN <<U("setEntries", << >>), U("setLoading", FALSE)>>
               ELSE <<U("setLoading", TRUE)>>
  /\ net = IF user = NoUser THEN << >>
           ELSE <<Op("raSelect", NoId, << >>, user)>>
  /\ remote \in {{}, {Row(E0, 1)}}
  /\ now = 1 /\ nextId = 2 /\ last = NoStep /\ lastEdit = << >> /\ calls = 0
  /\ storage = Stored(entries) /\ editor = NoEditor

(* The effect of useJournal.ts 383-417, run after the user has changed *)
FetchEffect(u) ==
  IF u = NoUser
  THEN <<U("setEntries", << >>), U("setLoading", FALSE)>>
  ELSE <<U("setLoading", TRUE)>>

(* The auth provider reports another user (sign in, sign out): the hook     *)
(* renders with it and the fetch effect runs                                *)
SetUser(u) ==
  /\ variant = "remote"
  /\ CanCall
  /\ u # user
  /\ u # NoUser => Len(net) < MaxNet
  /\ user' = u
  /\ pending' = pending \o FetchEffect(u)
  /\ net' = IF u = NoUser THEN net
            ELSE Append(net, Op("raSelect", NoId, << >>, u))
  /\ last' = Step("setUser", u, << >>)
  /\ calls' = calls + 1
  /\ UNCHANGED <<editor, storage, variant, supabase, entries, selectedId, syncingCount,
                 syncError, loading, remote, now, nextId, lastEdit>>

(* createEntry, useJournal.ts 419-432: null without a user, else the insert *)
(* is awaited                                                               *)
CreateEntryRemote ==
  /\ variant = "remote"
  /\ CanCall
  /\ Len(net) < MaxNet
  /\ IF user = NoUser
     THEN /\ net' = net
          /\ last' = Step("createEntry", NoId, << >>)
     ELSE /\ net' = Append(net, Op("raInsert", NoId, << >>, user))
          /\ last' = Step("createEntry", NoId, << >>)
  /\ calls' = calls + 1
  /\ UNCHANGED <<editor, storage, variant, supabase, user, entries, selectedId, syncingCount,
                 syncError, loading, pending, remote, now, nextId, lastEdit>>

(* updateEntry, useJournal.ts 456-469: the update is awaited; the user is   *)
(* not looked at                                                            *)
UpdateEntryRemote(id, updates) ==
  /\ variant = "remote"
  /\ CanCall
  /\ Len(net) < MaxNet
  /\ net' = Append(net, Op("raUpdate", id, updates, user))
  /\ last' = Step("updateEntry", id, << >>)
  /\ lastEdit' = NoteEdit(id, updates)
  /\ calls' = calls + 1
  /\ UNCHANGED <<editor, storage, variant, supabase, user, entries, selectedId, syncingCount,
                 syncError, loading, pending, remote, now, nextId>>

(* deleteEntry, useJournal.ts 487-491: the delete is awaited; selectedId is *)
(* the value of the render that made the callback                           *)
DeleteEntryRemote(id) ==
  /\ variant = "remote"
  /\ CanCall
  /\ Len(net) < MaxNet
  /\ net' = Append(net, Op("raDelete", id, selectedId, user))
  /\ last' = Step("deleteEntry", id, << >>)
  /\ calls' = calls + 1
  /\ UNCHANGED <<editor, storage, variant, supabase, user, entries, selectedId, syncingCount,
                 syncError, loading, pending, remote, now, nextId, lastEdit>>

(* importData, useJournal.ts 539-543: 0 without a user, else the file read  *)
(* starts                                                                   *)
ImportDataRemote(file) ==
  /\ variant = "remote"
  /\ CanCall
  /\ Len(net) < MaxNet
  /\ IF user = NoUser
     THEN /\ net' = net
          /\ last' = Step("importResolved", NoId, <<0>>)
     ELSE /\ net' = Append(net, Op("readFile", NoId, file, user))
          /\ last' = Step("importData", NoId, << >>)
  /\ calls' = calls + 1
  /\ UNCHANGED <<editor, storage, variant, supabase, user, entries, selectedId, syncingCount,
                 syncError, loading, pending, remote, now, nextId, lastEdit>>

(* reader.onload, useJournal.ts 544-564: the records are sent as rows of    *)
(* the user of the render that made the callback, in a request of the user  *)
(* signed in now (the op's id field)                                        *)
FileLoadedRemote(i) ==
  /\ variant = "remote"
  /\ i \in 1..Len(net)
  /\ net[i].kind = "readFile" /\ net[i].phase = "sent"
  /\ LET op == net[i]
     IN  IF ~IsArray(op.data)
         THEN /\ net' = RemoveAt(net, i)
              /\ last' = Step("importRejected", NoId, << >>)
         ELSE /\ net' = Append(RemoveAt(net, i),
                               Op("raImport", user, op.data.records, op.cap))
              /\ last' = NoStep
  /\ UNCHANGED <<editor, storage, variant, supabase, user, entries, selectedId, syncingCount,
                 syncError, loading, pending, remote, now, nextId, lastEdit,
                 calls>>

(* The rows a request sent by user u may see *)
Visible(rows, u) == {r \in rows : r.user_id = u}

(* The server carries out a call of the remote variant and answers: the     *)
(* rows read, or the rows written.  The insert policy refuses rows whose    *)
(* owner is not the user of the request.                                    *)
ServerHandleRemote(i) ==
  /\ i \in 1..Len(net)
  /\ net[i].phase = "sent"
  /\ net[i].kind \in RemoteKinds
  /\ net[i].kind = "raImport" => net[i].id = net[i].cap
  /\ LET op == net[i]
         n == IF op.kind = "raImport" THEN Len(op.data) ELSE 1
         new == [j \in 1..n |->
                   InsertedRow(IF op.kind = "raImport" THEN op.data[j] ELSE << >>,
                               op.cap, nextId + j - 1, now)]
     IN  CASE op.kind = "raSelect" ->
                /\ \E q \in OrderedRows(Visible(remote, op.cap)) :
                     net' = [net EXCEPT ![i].phase = "ok", ![i].res = q]
                /\ UNCHANGED <<remote, nextId>>
           [] op.kind \in {"raInsert", "raImport"} ->
                /\ remote' = remote \cup {new[j] : j \in 1..n}
                /\ nextId' = nextId + n
                /\ net' = [net EXCEPT ![i].phase = "ok", ![i].res = new]
           [] op.kind = "raUpdate" ->
                /\ remote' = {IF r.id = op.id /\ r.user_id = op.cap
                              THEN UpdatedRow(r, DbUpdates(op.data), now)
                              ELSE r : r \in remote}
                /\ net' = [net EXCEPT ![i].phase = "ok"]
                /\ UNCHANGED nextId
           [] op.kind = "raDelete" ->
                /\ remote' = {r \in remote : ~(r.id = op.id /\ r.user_id = op.cap)}
                /\ net' = [net EXCEPT ![i].phase = "ok"]
                /\ UNCHANGED nextId
  /\ last' = NoStep
  /\ UNCHANGED <<editor, storage, variant, supabase, user, entries, selectedId, syncingCount,
                 syncError, loading, pending, now, lastEdit, calls>>

(* A fetch that leaves loading set when the read fails: what C5 must tell  *)
(* from the code                                                            *)
FetchSettledStuck(op) ==
  IF op.phase = "err"
  THEN << >>
  ELSE <<U("setEntries", RowsToEntries(op.res)), U("setLoading", FALSE)>>

(* fetchEntries after the await, useJournal.ts 397-413 *)
FetchSettled(op) ==
  IF op.phase = "err"
  THEN <<U("setLoading", FALSE)>>
  ELSE <<U("setEntries", RowsToEntries(op.res)), U("setLoading", FALSE)>>

(* createEntry after the await, useJournal.ts 434-453 *)
CreateSettled(op) ==
  IF op.phase = "err" THEN << >>
  ELSE <<U("createPrepend", RowToEntry(op.res[1])),
         U("setSelectedId", op.res[1].id)>>

(* updateEntry after the await, useJournal.ts 471-484 *)
UpdateSettled(op) ==
  IF op.phase = "err" THEN << >>
  ELSE <<U("updateRemote",
           [id |-> op.id, updates |-> op.data, eager |-> EagerState, t |-> now])>>

(* deleteEntry after the await, useJournal.ts 493-502 *)
DeleteSettled(op) ==
  IF op.phase = "err" THEN << >>
  ELSE <<U("delete", op.id)>>
       \o (IF op.data = op.id THEN <<U("setSelectedId", NoId)>> ELSE << >>)

(* An import that merges the records of the file although the insert has   *)
(* failed: what C30 must tell from the code                                 *)
ImportSettledMerging(op) ==
  IF op.phase = "err"
  THEN <<U("importSort",
           [j \in 1..Len(op.data) |->
              RowToEntry(InsertedRow(op.data[j], op.cap, nextId + j - 1, now))])>>
  ELSE <<U("importSort", RowsToEntries(op.res))>>

(* importData after the await, useJournal.ts 566-585 *)
ImportSettled(op) ==
  IF op.phase = "err" THEN << >>
  ELSE <<U("importSort", RowsToEntries(op.res))>>

SettleRemote(i) ==
  /\ variant = "remote"
  /\ i \in 1..Len(net)
  /\ net[i].phase \in {"ok", "err"}
  /\ net[i].kind \in RemoteKinds
  /\ LET op == net[i]
     IN  /\ pending' = pending \o
              (CASE op.kind = "raSelect" -> FetchSettled(op)
                 [] op.kind = "raInsert" -> CreateSettled(op)
                 [] op.kind = "raUpdate" -> UpdateSettled(op)
                 [] op.kind = "raDelete" -> DeleteSettled(op)
                 [] op.kind = "raImport" -> ImportSettled(op))
         /\ last' =
              CASE op.kind = "raInsert" ->
                     IF op.phase = "err"
                     THEN Step("createEntryReturned", NoId, << >>)
                     ELSE Step("createEntryReturned", op.res[1].id,
                               <<RowToEntry(op.res[1])>>)
                [] op.kind = "raImport" ->
                     IF op.phase = "err"
                     THEN Step("importRejected", NoId, << >>)
                     ELSE Step("importResolved", NoId, <<Len(op.res)>>)
                [] OTHER -> NoStep
  /\ net' = RemoveAt(net, i)
  /\ UNCHANGED <<editor, storage, variant, supabase, user, entries, selectedId, syncingCount,
                 syncError, loading, remote, now, nextId, lastEdit, calls>>

-----------------------------------------------------------------------------
(* Specifications *)

NextLocal ==
  \/ CreateEntry
  \/ \E id \in CallerIds, updates \in UpdateInputs : UpdateEntry(id, updates)
  \/ \E id \in Ids(entries) \cup {MissingId} : DeleteEntry(id)
  \/ \E id \in Ids(entries) : SetSelectedId(id)
  \/ \E file \in FilesFor(variant) : ImportData(file)
  \/ \E i \in 1..Len(net) : FileLoadedLocal(i)
  \/ \E i \in 1..Len(net) : Fail(i)
  \/ \E i \in 1..Len(net) : FileFailed(i)
  \/ Render
  \/ Tick

NextSync ==
  \/ CreateEntry
  \/ \E id \in CallerIds, updates \in UpdateInputs : UpdateEntry(id, updates)
  \/ \E id \in Ids(entries) \cup {MissingId} : DeleteEntry(id)
  \/ \E id \in Ids(entries) : SetSelectedId(id)
  \/ RefreshEntries
  \/ \E file \in FilesFor(variant) : ImportData(file)
  \/ \E i \in 1..Len(net) : FileLoadedSync(i)
  \/ \E i \in 1..Len(net) : ServerHandle(i)
  \/ \E i \in 1..Len(net) : Fail(i)
  \/ \E i \in 1..Len(net) : FileFailed(i)
  \/ \E i \in 1..Len(net) : SettleSync(i)
  \/ Render
  \/ Tick

NextRemote ==
  \/ \E u \in {NoUser, 1} : SetUser(u)
  \/ CreateEntryRemote
  \/ \E id \in CallerIds, updates \in UpdateInputsRemote :
       UpdateEntryRemote(id, updates)
  \/ \E id \in Ids(entries) \cup {MissingId} : DeleteEntryRemote(id)
  \/ \E id \in Ids(entries) : SetSelectedId(id)
  \/ \E file \in Files : ImportDataRemote(file)
  \/ \E i \in 1..Len(net) : FileLoadedRemote(i)
  \/ \E i \in 1..Len(net) : ServerHandleRemote(i)
  \/ \E i \in 1..Len(net) : Fail(i)
  \/ \E i \in 1..Len(net) : FileFailed(i)
  \/ \E i \in 1..Len(net) : SettleRemote(i)
  \/ Render
  \/ Tick

Init == InitLocal \/ InitSync \/ InitRemote

Next ==
  \/ CreateEntry
  \/ \E id \in CallerIds, updates \in UpdateInputs : UpdateEntry(id, updates)
  \/ \E id \in Ids(entries) \cup {MissingId} : DeleteEntry(id)
  \/ \E id \in Ids(entries) : SetSelectedId(id)
  \/ RefreshEntries
  \/ \E file \in FilesFor(variant) : ImportData(file)
  \/ \E i \in 1..Len(net) : FileLoadedLocal(i)
  \/ \E i \in 1..Len(net) : FileLoadedSync(i)
  \/ \E i \in 1..Len(net) : ServerHandle(i)
  \/ \E i \in 1..Len(net) : SettleSync(i)
  \/ \E u \in {NoUser, 1} : SetUser(u)
  \/ CreateEntryRemote
  \/ \E id \in CallerIds, updates \in UpdateInputsRemote :
       UpdateEntryRemote(id, updates)
  \/ \E id \in Ids(entries) \cup {MissingId} : DeleteEntryRemote(id)
  \/ \E file \in Files : ImportDataRemote(file)
  \/ \E i \in 1..Len(net) : FileLoadedRemote(i)
  \/ \E i \in 1..Len(net) : ServerHandleRemote(i)
  \/ \E i \in 1..Len(net) : SettleRemote(i)
  \/ \E i \in 1..Len(net) : Fail(i)
  \/ \E i \in 1..Len(net) : FileFailed(i)
  \/ Render
  \/ Tick

SpecLocal == InitLocal /\ [][NextLocal]_vars

SpecRemote == InitRemote /\ [][NextRemote]_vars

Spec == Init /\ [][Next]_vars

SpecSync == InitSync /\ [][NextSync]_vars

-----------------------------------------------------------------------------
(* Vocabulary of the properties *)

MutationKinds == {"insert", "update", "delete", "raInsert", "raUpdate", "raDelete"}

CountSent(q, kind) ==
  Cardinality({i \in 1..Len(q) : q[i].kind = kind /\ q[i].phase = "sent"})

(* The state the next Render commits, with the clock at t *)
EffectiveAt(t) == ApplyAll(Committed, pending, t)

(* Effective in the state a step leads to *)
EffectiveNext == ApplyAll(Committed', pending', now')

(* The in-memory change that op mirrors is in the collection list *)
Reflected(op, before, after) ==
  CASE op.kind = "insert" -> \E i \in 1..Len(after) : after[i] = op.data
    [] op.kind = "update" -> \E i \in 1..Len(after) : after[i] = op.data
    [] op.kind = "delete" -> op.id \notin Ids(after)
    [] op.kind = "raInsert" -> Len(after) = Len(before) + 1
    [] op.kind = "raUpdate" ->
         \A i \in 1..Len(after) :
           after[i].id = op.id =>
             \A k \in DOMAIN op.data : after[i][k] = op.data[k]
    [] op.kind = "raDelete" -> op.id \notin Ids(after)

(* This step issues a remote call of the kind; it is the last of net' *)
Issues(kind) == CountSent(net', kind) > CountSent(net, kind)

(* This step is a call of createEntry *)
CreateCall == calls' = calls + 1 /\ last'.op = "createEntry"

-----------------------------------------------------------------------------
(* C2: in the sync variant with a client, every call of createEntry, every  *)
(* call of updateEntry for an id that is in the collection (committed and   *)
(* queued alike) and every call of deleteEntry issues exactly one remote    *)
(* insert, update or delete for it, also when updates are still queued.     *)
C2_EveryMutationMirrored ==
  [][(variant = "sync" /\ supabase /\ calls' = calls + 1
        /\ \/ last'.op \in {"createEntry", "deleteEntry"}
           \/ /\ last'.op = "updateEntry"
              /\ last'.id \in Ids(entries) \cap Ids(Effective.entries))
     => /\ Len(net') = Len(net) + 1
        /\ SubSeq(net', 1, Len(net)) = net
        /\ LET op == net'[Len(net')]
           IN  /\ op.phase = "sent"
               /\ op.id = last'.id
               /\ last'.op = "createEntry" =>
                    op.kind = "insert" /\ op.data = last'.ret[1]
               /\ last'.op = "updateEntry" =>
                    op.kind = "update" /\ op.data.id = last'.id
               /\ last'.op = "deleteEntry" => op.kind = "delete"]_vars

(* C3: in the sync variant, when the insert, update or delete that mirrors  *)
(* a mutation has failed and its handler runs, the collection (committed    *)
(* and queued) is left as it was and the sync error becomes non-null.       *)
C3_FailureKeepsMutation ==
  [][\A i \in 1..Len(net) :
       (/\ variant = "sync"
        /\ net[i].kind \in {"insert", "update", "delete"}
        /\ net[i].phase = "err"
        /\ net' = RemoveAt(net, i))
       => /\ entries' = entries
          /\ EffectiveNext.entries = EffectiveAt(now').entries
          /\ EffectiveNext.syncError # Null]_vars

(* C3 witness: a created entry (its title still empty) is in the rendered   *)
(* collection and not in the remote table, and the error of its failed      *)
(* insert is shown                                                          *)
C3_Witness ==
  /\ variant = "sync"
  /\ pending = << >>
  /\ syncError = ErrorText("insert")
  /\ \E i \in 1..Len(entries) :
       entries[i].title = "" /\ entries[i].id \notin RowIds(remote)

(* The remote operations of the sync variant issued and not yet settled *)
OutstandingIn(q) ==
  Cardinality({i \in 1..Len(q) : q[i].kind \in SyncKinds})

Outstanding == OutstandingIn(net)

(* C4: in the sync variant syncingCount, with the queued startSync and      *)
(* endSync updates applied, is the number of remote operations outstanding; *)
(* the rendered count is never negative, and once the queue is rendered     *)
(* isSyncing (syncingCount > 0) is false exactly when none is outstanding.  *)
C4_CountIsOutstanding ==
  variant = "sync" =>
    /\ Effective.syncingCount = Outstanding
    /\ syncingCount >= 0
    /\ pending = << >> => (syncingCount > 0 <=> Outstanding > 0)

(* C4 witness: an operation has failed and been settled (its error is       *)
(* shown) and the rendered count is that of the one still outstanding       *)
C4_Witness ==
  /\ variant = "sync"
  /\ pending = << >>
  /\ syncError # Null
  /\ syncingCount = 1
  /\ Outstanding = 1

(* C5: when the initial remote read has failed and its handler runs, the    *)
(* collection is left as it was (with no call made yet it is the snapshot   *)
(* the hook started with); in the sync variant the sync error becomes       *)
(* non-null and the count drops to the operations still outstanding (0 for  *)
(* the initial read alone); in the remote variant loading becomes false.    *)
C5_FailedReadFallsBack ==
  [][\A i \in 1..Len(net) :
       (/\ net[i].kind \in {"select", "raSelect"}
        /\ net[i].phase = "err"
        /\ net' = RemoveAt(net, i))
       => /\ entries' = entries
          /\ EffectiveNext.entries = EffectiveAt(now').entries
          /\ calls = 0 => EffectiveNext.entries = entries
          /\ net[i].kind = "select" =>
               /\ EffectiveNext.syncError # Null
               /\ EffectiveNext.syncingCount = OutstandingIn(net')
               /\ calls = 0 => EffectiveNext.syncingCount = 0
          /\ net[i].kind = "raSelect" => EffectiveNext.loading = FALSE]_vars

(* C5 witness: the sync variant after its initial read has failed, rendered: *)
(* the stored snapshot is shown with the error, nothing is syncing           *)
C5_Witness ==
  /\ variant = "sync"
  /\ calls = 0 /\ net = << >> /\ pending = << >>
  /\ entries = <<E0>>
  /\ syncError = ErrorText("select")
  /\ syncingCount = 0

(* C6: in the remote variant, while there is no user the collection (with   *)
(* the queued updates applied) is empty and no remote operation or file     *)
(* read issued without a user is in flight.                                 *)
C6_NoUserNoData ==
  (variant = "remote" /\ user = NoUser) =>
    /\ Effective.entries = << >>
    /\ \A i \in 1..Len(net) : net[i].cap # NoUser

(* C7: no guard on responses.  When a successful read settles, the          *)
(* collection becomes the rows of the response whatever it held; when a     *)
(* successful update of the remote variant settles, the entry gets the      *)
(* body that update carried, whatever was edited since.                     *)
C7_LastArrivalWins ==
  [][\A i \in 1..Len(net) :
       (net[i].phase = "ok" /\ net' = RemoveAt(net, i))
       => /\ net[i].kind = "select" =>
               EffectiveNext.entries =
                 sortEntries(HydrateAll(net[i].res, generateId, now))
          /\ net[i].kind = "raSelect" =>
               EffectiveNext.entries = RowsToEntries(net[i].res)
          /\ (net[i].kind = "raUpdate" /\ Has(net[i].data, "body")) =>
               \A j \in 1..Len(EffectiveNext.entries) :
                 EffectiveNext.entries[j].id = net[i].id =>
                   EffectiveNext.entries[j].body = net[i].data.body]_vars

(* C7 witness: everything has settled and is rendered, the remote table     *)
(* holds the user's last edit of an entry, and the collection holds an      *)
(* older body of it                                                         *)
C7_Witness ==
  /\ net = << >> /\ pending = << >>
  /\ \E i \in 1..Len(entries) :
       /\ entries[i].id \in DOMAIN lastEdit
       /\ entries[i].body # lastEdit[entries[i].id]
       /\ \E r \in remote :
            r.id = entries[i].id /\ r.body = lastEdit[entries[i].id]

(* C8: no two entries of the collection have the same id, whatever has been *)
(* created, updated, deleted, imported or refreshed.                        *)
C8_UniqueIds == ~HasRepeatedId(entries)

(* C9: every entry of the collection has a wordCount, and it is the number  *)
(* of whitespace-delimited tokens of its body after trimming.               *)
C9_WordCountFresh ==
  \A i \in 1..Len(entries) :
    /\ Has(entries[i], "wordCount") /\ Has(entries[i], "body")
    /\ entries[i].wordCount = countWords(entries[i].body)

(* C10: a call of createEntry (local and sync variants) returns an entry    *)
(* with empty title and body, no mood, no tags, wordCount 0 and createdAt   *)
(* equal to updatedAt; the collection gains exactly that entry, at index 0  *)
(* (the first position), the other entries are as they were, and            *)
(* selectedId is the new id.                                                *)
C10_CreateEntryContract ==
  [][(CreateCall /\ variant \in {"local", "sync"}) =>
       /\ last'.ret # << >>
       /\ LET new == last'.ret[1]
              before == EffectiveAt(now').entries
              after == EffectiveNext
          IN  /\ new.title = "" /\ new.body = B0
              /\ new.mood = Undefined /\ new.tags = << >>
              /\ new.wordCount = 0
              /\ new.createdAt = new.updatedAt
              /\ Len(after.entries) = Len(before) + 1
              /\ after.entries[1] = new
              /\ FilterOutId(after.entries, new.id) = before
              /\ after.selectedId = new.id]_vars

-----------------------------------------------------------------------------
(* This step is a call of updateEntry of the local or sync variant; the     *)
(* update it queues is the first it appends to the queue                    *)
UpdateCall ==
  /\ variant \in {"local", "sync"}
  /\ calls' = calls + 1 /\ last'.op = "updateEntry"

UpdatesOfCall == pending'[Len(pending) + 1].arg.updates

(* C11: updateEntry(id, partial) of the local and sync variants on an id    *)
(* that is in the collection: the collection keeps its length and order;    *)
(* every entry with another id is unchanged; the entry with the id has the  *)
(* provided fields, its other fields, its id and createdAt as before,       *)
(* wordCount the word count of its resulting body, updatedAt the current    *)
(* time.                                                                    *)
C11_UpdateMergesOne ==
  [][(UpdateCall /\ last'.id \in Ids(EffectiveAt(now').entries)) =>
       LET before == EffectiveAt(now').entries
           after == EffectiveNext.entries
           partial == UpdatesOfCall
       IN  /\ Len(after) = Len(before)
           /\ \A i \in 1..Len(before) :
                IF before[i].id # last'.id
                THEN after[i] = before[i]
                ELSE /\ after[i].id = before[i].id
                     /\ Has(before[i], "createdAt") =>
                          after[i].createdAt = before[i].createdAt
                     /\ \A k \in DOMAIN partial : after[i][k] = partial[k]
                     /\ \A k \in DOMAIN before[i] \
                               (DOMAIN partial \cup {"wordCount", "updatedAt"}) :
                          after[i][k] = before[i][k]
                     /\ after[i].wordCount = countWords(after[i].body)
                     /\ after[i].updatedAt = now']_vars

(* C11 witness: updateEntry has just been called on one of two entries and  *)
(* that entry has the new body with its word count, the other entry is the  *)
(* one created before                                                       *)
C11_Witness ==
  /\ variant \in {"local", "sync"}
  /\ last.op = "updateEntry"
  /\ Len(Effective.entries) = 2
  /\ \E i, j \in 1..2 :
       /\ i # j
       /\ Effective.entries[i].id = last.id
       /\ Effective.entries[i].body = B2
       /\ Effective.entries[i].wordCount = 2
       /\ Effective.entries[j].body = B0

(* C12: updateEntry with an id that is not in the collection, in every      *)
(* variant: the call leaves the collection, the selection and the error     *)
(* state as they were (in the sync variant it issues no remote call), and   *)
(* so does the response handler of the remote variant's update.             *)
C12_MissingIdNoOp ==
  [][LET before == EffectiveAt(now')
         after == EffectiveNext
         same == /\ after.entries = before.entries
                 /\ after.selectedId = before.selectedId
                 /\ after.syncError = before.syncError
     IN  /\ (/\ calls' = calls + 1 /\ last'.op = "updateEntry"
             /\ last'.id \notin Ids(before.entries))
            => same /\ (variant = "sync" => net' = net)
         /\ \A i \in 1..Len(net) :
              (/\ net[i].kind = "raUpdate" /\ net[i].phase \in {"ok", "err"}
               /\ net' = RemoveAt(net, i)
               /\ net[i].id \notin Ids(before.entries))
              => same]_vars

(* C12 witness: the sync variant's updateEntry has just been called with an *)
(* id of no entry; its update is queued over a collection that has entries  *)
C12_Witness ==
  /\ variant = "sync"
  /\ last.op = "updateEntry"
  /\ last.id \notin Ids(Effective.entries)
  /\ Effective.entries # << >>
  /\ pending # << >> /\ pending[Len(pending)].kind = "updateSync"

(* The entries of list whose id is not id, in the order of list *)
WithoutId(list, id) == SelectSeq(list, LAMBDA e : e.id # id)

(* What deleteEntry(id) must make of the state before *)
Deleted(before, after, id) ==
  /\ after.entries = WithoutId(before.entries, id)
  /\ after.selectedId = IF before.selectedId = id THEN NoId ELSE before.selectedId

(* C13: deleteEntry(id) removes the entries with that id and no other,      *)
(* keeps the order, and clears the selection exactly when the selection at  *)
(* the time the removal is applied is id: at the call in the local and sync *)
(* variants, when the successful response is handled in the remote variant. *)
C13_DeleteRemovesOne ==
  [][LET before == EffectiveAt(now')
         after == EffectiveNext
     IN  /\ (/\ variant \in {"local", "sync"}
             /\ calls' = calls + 1 /\ last'.op = "deleteEntry")
            => Deleted(before, after, last'.id)
         /\ \A i \in 1..Len(net) :
              (/\ net[i].kind = "raDelete" /\ net[i].phase = "ok"
               /\ net' = RemoveAt(net, i))
              => Deleted(before, after, net[i].id)]_vars

(* The records an import of the local or sync variant merges from, when the *)
(* step that removes op from net resolves the import: the file's records,   *)
(* hydrated in the sync variant                                             *)
RecordsOf(op) ==
  IF op.kind = "upsert" THEN op.data
  ELSE IF variant = "sync" THEN HydrateAll(op.data.records, generateId, now)
  ELSE op.data.records

(* C14: when an import of the local or sync variant resolves, the           *)
(* collection has gained exactly the imported entries whose id was not in   *)
(* it, the entries it had are unchanged and in their order, and the count   *)
(* reported is the number of entries it has grown by.                       *)
C14_ImportMergesNew ==
  [][\A i \in 1..Len(net) :
       (/\ variant \in {"local", "sync"}
        /\ last'.op = "importResolved"
        /\ net[i].kind \in {"readFile", "upsert"}
        /\ net' = RemoveAt(net, i))
       => LET before == EffectiveAt(now').entries
              after == EffectiveNext.entries
              new == SelectSeq(RecordsOf(net[i]),
                               LAMBDA e : e.id \notin Ids(before))
          IN  /\ Len(after) = Len(before) + Len(new)
              /\ \A j \in 1..Len(new) :
                   \E k \in 1..Len(after) : after[k] = new[j]
              /\ SelectSeq(after, LAMBDA e : e.id \in Ids(before)) = before
              /\ last'.ret = <<Len(after) - Len(before)>>]_vars


(* ---------------------------------------------------------------------- *)
(* C15                                                                      *)
(* ---------------------------------------------------------------------- *)

(* A record counts as entry-shaped when it has at least one field of an    *)
(* entry: the widest reading, partial records included                     *)
EntryShaped(record) == DOMAIN record \cap EntryKeys # {}

WellFormed(file) ==
  IsArray(file) /\ \A j \in 1..Len(file.records) : EntryShaped(file.records[j])

(* The step in which reader.onload runs on the i-th operation *)
FileLoadedStep(i) ==
  /\ variant \in {"local", "sync"}
  /\ net[i].kind = "readFile" /\ net[i].phase = "sent"
  /\ \/ net' = RemoveAt(net, i)
     \/ /\ Len(net') = Len(net)
        /\ SubSeq(net', 1, Len(net) - 1) = RemoveAt(net, i)
        /\ net'[Len(net')].kind = "upsert"

(* C15: an import whose input is not an array of entry-shaped records      *)
(* (unparseable text, a non-array value, an array with an element that is  *)
(* no entry record) is rejected as a whole: when the file has been read    *)
(* the promise rejects, nothing is sent and the collection is unchanged.   *)
C15_MalformedRejected ==
  [][\A i \in 1..Len(net) :
       (FileLoadedStep(i) /\ ~WellFormed(net[i].data)) =>
          /\ last'.op = "importRejected"
          /\ net' = RemoveAt(net, i)
          /\ EffectiveNext.entries = EffectiveAt(now').entries]_vars

(* ---------------------------------------------------------------------- *)
(* C16                                                                      *)
(* ---------------------------------------------------------------------- *)

(* The value of field k of an entry or record, absent when undefined *)
Field(e, k) ==
  IF Has(e, k) /\ ~(k = "mood" /\ e[k] = Undefined) THEN <<e[k]>> ELSE << >>

SameFields(a, b) == \A k \in EntryKeys : Field(a, k) = Field(b, k)

(* The two lists hold the same entries, field by field, in some order *)
SameEntries(a, b) ==
  /\ Len(a) = Len(b)
  /\ \E f \in [1..Len(a) -> 1..Len(a)] :
       /\ \A i, j \in 1..Len(a) : i # j => f[i] # f[j]
       /\ \A i \in 1..Len(a) : SameFields(a[i], b[f[i]])

(* The records are what exportData writes of some collection: every field  *)
(* of an entry but an undefined mood                                       *)
IsExport(records) ==
  /\ records # << >>
  /\ \A j \in 1..Len(records) :
       /\ DOMAIN records[j] \subseteq EntryKeys
       /\ EntryKeys \ {"mood"} \subseteq DOMAIN records[j]

(* The step in which the import of the i-th operation resolves, and the    *)
(* records of its file                                                     *)
ImportResolvedStep(i) ==
  /\ last'.op = "importResolved"
  /\ net[i].kind \in {"readFile", "upsert", "raImport"}
  /\ net' = RemoveAt(net, i)

ImportedRecords(op) == IF op.kind = "readFile" THEN op.data.records ELSE op.data

(* C16: round trip.  When the import of a file that exportData wrote       *)
(* resolves in a store whose collection is empty, the collection holds     *)
(* exactly the exported entries, every field equal; in each variant.       *)
C16_RoundTrip ==
  [][\A i \in 1..Len(net) :
       (/\ ImportResolvedStep(i)
        /\ IsExport(ImportedRecords(net[i]))
        /\ EffectiveAt(now').entries = << >>)
       => SameEntries(EffectiveNext.entries, ImportedRecords(net[i]))]_vars

-----------------------------------------------------------------------------
(* calculateStats (useJournal.ts 16-58, supabase.ts 35-77) *)

(* The keys of moodCounts in the order they are declared *)
MoodOrder == <<"happy", "calm", "sad", "anxious", "excited", "grateful">>

(* undefined + 1: not a number, written as a count no entry can have *)
NaN == -1

(* One day, in the unit of createdAt; the time zone has no change of offset *)
DayMs == 2

(* d.setHours(0, 0, 0, 0); d.getTime() *)
StartOfDay(t) == t - (t % DayMs)

(* entry.mood is truthy *)
HasMood(entry) == Has(entry, "mood") /\ entry.mood # Undefined

(* moodCounts[mood]++ on the pairs of Object.entries(moodCounts): a key     *)
(* that is not there is added at the end with undefined + 1                 *)
Increment(counts, mood) ==
  IF \E i \in 1..Len(counts) : counts[i].mood = mood
  THEN [i \in 1..Len(counts) |->
          IF counts[i].mood = mood /\ counts[i].count # NaN
          THEN [counts[i] EXCEPT !.count = @ + 1] ELSE counts[i]]
  ELSE Append(counts, [mood |-> mood, count |-> NaN])

RECURSIVE CountMoods(_, _)
CountMoods(list, counts) ==
  IF list = << >> THEN counts
  ELSE CountMoods(Tail(list),
                  IF HasMood(Head(list))
                  THEN Increment(counts, Head(list).mood) ELSE counts)

(* The pairs of Object.entries(moodCounts) after the forEach *)
moodCounts(list) ==
  CountMoods(list, [i \in 1..Len(MoodOrder) |->
                      [mood |-> MoodOrder[i], count |-> 0]])

RECURSIVE totalWords(_)
totalWords(list) ==
  IF list = << >> THEN 0 ELSE Head(list).wordCount + totalWords(Tail(list))

(* A comparison that also moves a pair before the pairs of equal count:     *)
(* what C18 must tell from the code                                         *)
GoesBeforeOrTies(b, a) ==
  a.count # NaN /\ b.count # NaN /\ b.count - a.count >= 0

(* (a, b) => b[1] - a[1] is positive: b goes before a.  A difference that   *)
(* is not a number counts as 0                                              *)
GoesBefore(b, a) == a.count # NaN /\ b.count # NaN /\ b.count - a.count > 0

(* sort: stable, so a pair stays behind every pair it does not go before *)
RECURSIVE InsertPair(_, _)
InsertPair(sorted, pair) ==
  IF sorted = << >> THEN <<pair>>
  ELSE IF GoesBefore(pair, sorted[Len(sorted)])
  THEN Append(InsertPair(SubSeq(sorted, 1, Len(sorted) - 1), pair),
              sorted[Len(sorted)])
  ELSE Append(sorted, pair)

RECURSIVE SortPairs(_)
SortPairs(pairs) ==
  IF pairs = << >> THEN << >>
  ELSE InsertPair(SortPairs(SubSeq(pairs, 1, Len(pairs) - 1)),
                  pairs[Len(pairs)])

mostUsedMood(list) ==
  LET first == SortPairs(moodCounts(list))[1]
  IN  IF first.count > 0 THEN first.mood ELSE Null

SetMax(S) == CHOOSE x \in S : \A y \in S : y <= x

(* [...new Set(days)].sort((a, b) => b - a) *)
RECURSIVE SortedDesc(_)
SortedDesc(S) ==
  IF S = {} THEN << >> ELSE <<SetMax(S)>> \o SortedDesc(S \ {SetMax(S)})

sortedDates(list) ==
  SortedDesc({StartOfDay(list[i].createdAt) : i \in 1..Len(list)})

(* The loop of the streak from index i (1-based): it stops at the first    *)
(* date that is not the expected one                                       *)
RECURSIVE StreakFrom(_, _, _)
StreakFrom(dates, today, i) ==
  IF i > Len(dates) THEN 0
  ELSE IF dates[i] = today - (i - 1) * DayMs
  THEN 1 + StreakFrom(dates, today, i + 1)
  ELSE 0

streakDays(list, t) == StreakFrom(sortedDates(list), StartOfDay(t), 1)

calculateStats(list, t) ==
  [totalEntries |-> Len(list),
   totalWords |-> totalWords(list),
   streakDays |-> streakDays(list, t),
   mostUsedMood |-> mostUsedMood(list),
   moodCounts |-> moodCounts(list)]

-----------------------------------------------------------------------------
(* calculateStats as a function of the collection and the clock: the        *)
(* collections are drawn from entries of four days, today being the third,  *)
(* with a mood of the six, with none, or with one outside the six (which    *)
(* an import brings in)                                                     *)

MaxStatsLen == 3
MaxDay == 3

StatsMoods == {Undefined, "happy", "calm", "angry"}

StatsEntries ==
  {Entry(1, "", B0, m, << >>, c, c, 1 + (c % 2)) :
     c \in 0..((MaxDay + 1) * DayMs - 1), m \in StatsMoods}

RECURSIVE SeqsUpTo(_, _)
SeqsUpTo(S, n) ==
  IF n = 0 THEN {<< >>}
  ELSE LET shorter == SeqsUpTo(S, n - 1)
       IN  shorter \cup {Append(q, x) : q \in shorter, x \in S}

InitStats ==
  /\ variant = "local" /\ supabase = FALSE /\ user = NoUser
  /\ entries \in SeqsUpTo(StatsEntries, MaxStatsLen)
  /\ selectedId = NoId /\ syncingCount = 0 /\ syncError = Null
  /\ loading = FALSE
  /\ pending = << >> /\ net = << >> /\ remote = {}
  /\ now \in {(MaxDay - 1) * DayMs, (MaxDay - 1) * DayMs + 1}
  /\ nextId = 2 /\ last = NoStep /\ lastEdit = << >> /\ calls = 0
  /\ storage = Stored(entries) /\ editor = NoEditor

(* const stats = calculateStats(entries), at a render *)
CalculateStats ==
  /\ last.op = "none"
  /\ last' = Step("calculateStats", NoId, <<calculateStats(entries, now)>>)
  /\ UNCHANGED <<editor, storage, variant, supabase, user, entries, selectedId, syncingCount,
                 syncError, loading, pending, net, remote, now, nextId,
                 lastEdit, calls>>

NextStats == CalculateStats

SpecStats == InitStats /\ [][NextStats]_vars

(* ---------------------------------------------------------------------- *)
(* C17                                                                      *)
(* ---------------------------------------------------------------------- *)

(* The days, as starts of day, on which the collection has an entry *)
EntryDays == {StartOfDay(entries[i].createdAt) : i \in 1..Len(entries)}

(* Each of today, today-1, ..., today-(k-1) has an entry *)
RunOfDays(k) ==
  \A j \in 0..(k - 1) : StartOfDay(now) - j * DayMs \in EntryDays

(* C17: streakDays is the largest k such that each of the days today,      *)
(* today-1, ..., today-(k-1) has an entry, 0 when today has none; entries  *)
(* dated after today do not change it.                                     *)
C17_StreakIsRun ==
  last.op = "calculateStats" =>
    /\ RunOfDays(last.ret[1].streakDays)
    /\ ~RunOfDays(last.ret[1].streakDays + 1)

(* ---------------------------------------------------------------------- *)
(* C18                                                                      *)
(* ---------------------------------------------------------------------- *)

(* The number of entries of the collection whose mood is m *)
MoodCount(m) ==
  Cardinality({i \in 1..Len(entries) :
                 Has(entries[i], "mood") /\ entries[i].mood = m})

HighestCount == SetMax({MoodCount(m) : m \in Moods})

(* C18: mostUsedMood is the mood (of the six) with the highest entry       *)
(* count, the earliest in the declared order happy, calm, sad, anxious,    *)
(* excited, grateful among those that share it, and null when no entry     *)
(* has such a mood.                                                        *)
C18_MostUsedMood ==
  last.op = "calculateStats" =>
    IF HighestCount = 0
    THEN last.ret[1].mostUsedMood = Null
    ELSE \E i \in 1..Len(MoodOrder) :
           /\ last.ret[1].mostUsedMood = MoodOrder[i]
           /\ MoodCount(MoodOrder[i]) = HighestCount
           /\ \A j \in 1..(i - 1) : MoodCount(MoodOrder[j]) < HighestCount

(* Two moods share the highest count, beside an entry of another mood     *)
C18_Witness ==
  /\ last.op = "calculateStats"
  /\ Len(entries) = 3
  /\ MoodCount("happy") = 1 /\ MoodCount("calm") = 1
  /\ entries[1].mood = "calm"
  /\ last.ret[1].mostUsedMood = "happy"

(* ---------------------------------------------------------------------- *)
(* C19                                                                      *)
(* ---------------------------------------------------------------------- *)

(* The sum of the wordCount fields, taken from the end of the list *)
RECURSIVE WordSum(_, _)
WordSum(list, n) == IF n = 0 THEN 0 ELSE WordSum(list, n - 1) + list[n].wordCount

(* C19: for every collection the store reaches, the stats of a render      *)
(* have totalEntries = the number of entries, totalWords = the sum of      *)
(* their wordCount, and moodCounts with exactly the six mood keys, each    *)
(* the number of entries of that mood; on the empty collection all are 0,  *)
(* streakDays is 0 and mostUsedMood is null.                               *)
C19_StatsTotals ==
  LET counts == moodCounts(entries)
  IN  /\ totalWords(entries) = WordSum(entries, Len(entries))
      /\ Len(counts) = Cardinality(Moods)
      /\ {counts[i].mood : i \in 1..Len(counts)} = Moods
      /\ \A i \in 1..Len(counts) : counts[i].count = MoodCount(counts[i].mood)
      /\ entries = << >> =>
           /\ totalWords(entries) = 0
           /\ \A i \in 1..Len(counts) : counts[i].count = 0
           /\ streakDays(entries, now) = 0
           /\ mostUsedMood(entries) = Null

-----------------------------------------------------------------------------
(* filteredEntries (useJournal.ts 228-241, 507-520; supabase.ts) as a      *)
(* function of the collection and the three filters.  Texts are sequences  *)
(* of characters here; null and '' are both << >>, as both are falsy.      *)

MaxFilterLen == 2

(* toLowerCase of a character *)
LowerChar(c) ==
  CASE c = "W" -> "w" [] c = "N" -> "n" [] c = "A" -> "a" [] OTHER -> c

toLowerCase(text) == [i \in 1..Len(text) |-> LowerChar(text[i])]

(* text.includes(q) *)
includes(text, q) ==
  \E k \in 0..(Len(text) - Len(q)) : SubSeq(text, k + 1, k + Len(q)) = q

(* A query that is looked for in the title only: what C20 must tell from   *)
(* the code                                                                *)
MatchesQueryTitleOnly(entry, searchQuery) ==
  includes(toLowerCase(entry.title), toLowerCase(searchQuery))

(* matchesTitle || matchesBody || matchesTags *)
MatchesQuery(entry, searchQuery) ==
  LET query == toLowerCase(searchQuery)
  IN  \/ includes(toLowerCase(entry.title), query)
      \/ includes(toLowerCase(entry.body), query)
      \/ \E i \in 1..Len(entry.tags) :
           includes(toLowerCase(entry.tags[i]), query)

(* The callback of entries.filter: FALSE at the first return false *)
Keeps(entry, searchQuery, filterMood, filterTag) ==
  IF searchQuery # << >> /\ ~MatchesQuery(entry, searchQuery) THEN FALSE
  ELSE IF filterMood # Null /\ entry.mood # filterMood THEN FALSE
  ELSE IF filterTag # << >>
          /\ ~(\E i \in 1..Len(entry.tags) : entry.tags[i] = filterTag)
  THEN FALSE
  ELSE TRUE

RECURSIVE filteredEntries(_, _, _, _)
filteredEntries(list, searchQuery, filterMood, filterTag) ==
  IF list = << >> THEN << >>
  ELSE (IF Keeps(Head(list), searchQuery, filterMood, filterTag)
        THEN <<Head(list)>> ELSE << >>)
       \o filteredEntries(Tail(list), searchQuery, filterMood, filterTag)

(* The entries, queries and filters the view is given *)
Walk == <<"W", "a">>
Nature == <<"n", "a">>

FilterInputEntries ==
  {Entry(1, Walk, B1, "calm", <<Nature>>, 1, 1, 1),
   Entry(2, << >>, <<"w", "a">>, "happy", << >>, 1, 1, 1),
   Entry(3, <<"n">>, B0, Undefined, <<<<"N", "a">>, Walk>>, 1, 1, 0),
   Entry(4, B1, B2, "calm", <<<<"a">>>>, 1, 1, 2)}

Queries == {<< >>, <<"w", "A">>, <<"N">>, <<"b">>}
FilterMoods == {Null, "calm", "happy"}
FilterTags == {<< >>, Nature, Walk}

InitFilter ==
  /\ variant = "sync" /\ supabase = FALSE /\ user = NoUser
  /\ entries \in SeqsUpTo(FilterInputEntries, MaxFilterLen)
  /\ selectedId = NoId /\ syncingCount = 0 /\ syncError = Null
  /\ loading = FALSE
  /\ pending = << >> /\ net = << >> /\ remote = {}
  /\ now = 1 /\ nextId = 5 /\ last = NoStep /\ lastEdit = << >> /\ calls = 0
  /\ storage = Stored(entries) /\ editor = NoEditor

(* setSearchQuery, setFilterMood, setFilterTag and the render that follows: *)
(* the view is computed from the collection and the filters                 *)
SetFilters(searchQuery, filterMood, filterTag) ==
  /\ last' = Step("filteredEntries", NoId,
                  <<[searchQuery |-> searchQuery, filterMood |-> filterMood,
                     filterTag |-> filterTag,
                     entries |-> filteredEntries(entries, searchQuery,
                                                 filterMood, filterTag)]>>)
  /\ UNCHANGED <<editor, storage, variant, supabase, user, entries, selectedId, syncingCount,
                 syncError, loading, pending, net, remote, now, nextId,
                 lastEdit, calls>>

NextFilter ==
  \E searchQuery \in Queries, filterMood \in FilterMoods,
     filterTag \in FilterTags :
       SetFilters(searchQuery, filterMood, filterTag)

SpecFilter == InitFilter /\ [][NextFilter]_vars

(* ---------------------------------------------------------------------- *)
(* C20                                                                      *)
(* ---------------------------------------------------------------------- *)

(* The upper-case form of a character: the comparison of the claim is made *)
(* on it                                                                   *)
UpperChar(c) ==
  CASE c = "w" -> "W" [] c = "n" -> "N" [] c = "a" -> "A" [] c = "b" -> "B"
    [] OTHER -> c

(* q occurs in text somewhere, letter case aside *)
ContainsAnyCase(text, q) ==
  \E k \in 0..(Len(text) - Len(q)) :
     \A j \in 1..Len(q) : UpperChar(text[k + j]) = UpperChar(q[j])

(* The entry satisfies every active predicate of the view f *)
Satisfies(e, f) ==
  /\ f.searchQuery # << >> =>
       \/ ContainsAnyCase(e.title, f.searchQuery)
       \/ ContainsAnyCase(e.body, f.searchQuery)
       \/ \E t \in {e.tags[i] : i \in 1..Len(e.tags)} :
            ContainsAnyCase(t, f.searchQuery)
  /\ f.filterMood # Null => e.mood = f.filterMood
  /\ f.filterTag # << >> => f.filterTag \in {e.tags[i] : i \in 1..Len(e.tags)}

(* C20: the filtered view is the subsequence of the collection, in its     *)
(* order, of the entries that satisfy every active predicate (the query    *)
(* contained case-insensitively in title, body or a tag; the mood filter   *)
(* equal to the mood; the tag filter among the tags); and changing a       *)
(* filter does not change the collection.                                  *)
C20_FilteredView ==
  [][last'.op = "filteredEntries" =>
       /\ last'.ret[1].entries =
            SelectSeq(entries, LAMBDA e : Satisfies(e, last'.ret[1]))
       /\ entries' = entries]_vars

(* A query that matches one entry by a tag only and another by its body,   *)
(* with a mood filter that leaves one of the two                           *)
C20_Witness ==
  /\ last.op = "filteredEntries"
  /\ last.ret[1].searchQuery = <<"w", "A">>
  /\ last.ret[1].filterMood = "happy"
  /\ Len(entries) = 2 /\ entries[1].id = 3 /\ entries[2].id = 2
  /\ Len(last.ret[1].entries) = 1 /\ last.ret[1].entries[1].id = 2

(* ---------------------------------------------------------------------- *)
(* C21                                                                      *)
(* ---------------------------------------------------------------------- *)

(* C21: in every reachable state every entry of the collection has         *)
(* updatedAt >= createdAt (an entry that lacks one of the two does not).   *)
C21_UpdatedNotBeforeCreated ==
  \A i \in 1..Len(entries) :
     /\ Has(entries[i], "createdAt") /\ Has(entries[i], "updatedAt")
     /\ entries[i].updatedAt >= entries[i].createdAt

(* ---------------------------------------------------------------------- *)
(* C22                                                                      *)
(* ---------------------------------------------------------------------- *)

(* C22: in every reachable state of every variant the collection is        *)
(* ordered by createdAt, newest first (non-increasing).                    *)
C22_NewestFirst ==
  \A i, j \in 1..Len(entries) :
     i < j => /\ Has(entries[i], "createdAt") /\ Has(entries[j], "createdAt")
              /\ entries[i].createdAt >= entries[j].createdAt

-----------------------------------------------------------------------------
(* The local and sync variants without a remote client, and the start of a *)
(* new session on the same localStorage                                    *)

(* sync with supabase null (lib/supabase.ts 6-20: the env vars are missing) *)
InitOffline ==
  /\ variant = "sync" /\ supabase = FALSE /\ user = NoUser
  /\ entries \in Snapshots
  /\ selectedId = NoId /\ syncingCount = 0 /\ syncError = Null
  /\ loading = FALSE
  /\ pending = << >> /\ net = << >> /\ remote = {}
  /\ now = 1 /\ nextId = 2 /\ last = NoStep /\ lastEdit = << >> /\ calls = 0
  /\ storage = Stored(entries) /\ editor = NoEditor

(* The page is loaded again: useState's initialiser reads the slot (saved   *)
(* is what getItem returns: the slot, or a text something else left there   *)
(* that does not parse), the other state starts afresh, the mount effects   *)
(* run.  What was in flight belongs to the page that is gone.               *)
StartSession(saved) ==
  /\ variant \in {"local", "sync"}
  /\ CanCall
  /\ entries' = IF saved.parses THEN saved.value ELSE << >>
  /\ selectedId' = NoId /\ syncingCount' = 0 /\ syncError' = Null
  /\ loading' = FALSE
  /\ pending' = IF supabase THEN <<U("startSync", 0)>> ELSE << >>
  /\ net' = IF supabase THEN <<Op("select", NoId, << >>, << >>)>> ELSE << >>
  /\ storage' = Persist(entries')
  /\ last' = Step("sessionStarted", NoId, <<saved.parses>>)
  /\ lastEdit' = << >>
  /\ calls' = calls + 1
  /\ UNCHANGED <<editor, variant, supabase, user, remote, now, nextId>>

NextOffline ==
  \/ CreateEntry
  \/ \E id \in CallerIds, updates \in UpdateInputs : UpdateEntry(id, updates)
  \/ \E id \in Ids(entries) \cup {MissingId} : DeleteEntry(id)
  \/ \E id \in Ids(entries) : SetSelectedId(id)
  \/ \E file \in FilesFor(variant) : ImportData(file)
  \/ \E i \in 1..Len(net) : FileLoadedLocal(i)
  \/ \E i \in 1..Len(net) : FileLoadedSync(i)
  \/ \E i \in 1..Len(net) : Fail(i)
  \/ \E i \in 1..Len(net) : FileFailed(i)
  \/ \E saved \in {storage, Garbled} : StartSession(saved)
  \/ Render
  \/ Tick

SpecOffline == (InitLocal \/ InitOffline) /\ [][NextOffline]_vars

(* ---------------------------------------------------------------------- *)
(* C23                                                                      *)
(* ---------------------------------------------------------------------- *)

(* The same entries in the same order, field by field *)
SameList(a, b) ==
  Len(a) = Len(b) /\ \A i \in 1..Len(a) : SameFields(a[i], b[i])

(* C23: in the local and sync variants, once every change of the           *)
(* collection has been processed the localStorage slot holds the           *)
(* serialisation of the collection, and a session that starts then begins  *)
(* with exactly that collection; it begins with the empty collection when  *)
(* the stored value does not parse.                                        *)
C23_StorageFollows ==
  [][/\ (variant \in {"local", "sync"} /\ pending' = << >>) =>
          storage'.parses /\ SameList(storage'.value, entries')
     /\ (last'.op = "sessionStarted" /\ calls' = calls + 1 /\ pending = << >>) =>
          IF last'.ret = <<TRUE>> THEN SameList(entries', entries)
          ELSE entries' = << >>]_vars

(* A session started on a slot that held two entries *)
C23_Witness ==
  /\ last.op = "sessionStarted" /\ last.ret = <<TRUE>>
  /\ Len(entries) = 2
  /\ storage = Stored(entries)

(* ---------------------------------------------------------------------- *)
(* C24                                                                      *)
(* ---------------------------------------------------------------------- *)

(* The update the local variant queues where the sync variant queues u;    *)
(* raw is what the local importData merges of the file just read           *)
LocalUpdate(u, raw) ==
  CASE u.kind = "createSync" -> U("createPrepend", u.arg)
    [] u.kind = "updateSync" -> U("updateLocal", u.arg)
    [] u.kind = "importSync" -> U("importSort", raw)
    [] OTHER -> u

(* What the local importData would merge in this step *)
LocalMerge ==
  IF \E i \in 1..Len(net) : FileLoadedStep(i) /\ IsArray(net[i].data)
  THEN LET i == CHOOSE i \in 1..Len(net) :
                  FileLoadedStep(i) /\ IsArray(net[i].data)
       IN  FilterNotIn(net[i].data.records, net[i].cap)
  ELSE << >>

(* C24: without a remote client the sync variant behaves as the local      *)
(* variant: each operation leaves the collection and the selection the     *)
(* local variant's operation leaves from the same state, no remote call    *)
(* is issued, syncingCount stays 0 and syncError stays null.               *)
C24_OfflineAsLocal ==
  [][(variant = "sync" /\ ~supabase) =>
       /\ \A i \in 1..Len(net') : net'[i].kind = "readFile"
       /\ EffectiveNext.syncingCount = 0 /\ EffectiveNext.syncError = Null
       /\ Len(pending') > Len(pending) =>
            LET before == EffectiveAt(now')
                new == SubSeq(pending', Len(pending) + 1, Len(pending'))
                twin == [j \in 1..Len(new) |-> LocalUpdate(new[j], LocalMerge)]
                sync == ApplyAll(before, new, now')
                local == ApplyAll(before, twin, now')
            IN  /\ SameList(sync.entries, local.entries)
                /\ sync.selectedId = local.selectedId]_vars

(* ---------------------------------------------------------------------- *)
(* C25                                                                      *)
(* ---------------------------------------------------------------------- *)

(* C25: in the sync variant, whenever no remote operation is in flight     *)
(* and syncError is null, the remote table holds exactly the entries of    *)
(* the in-memory collection, with the same field values.                   *)
C25_QuietMeansMirrored ==
  (variant = "sync" /\ supabase /\ net = << >> /\ pending = << >>
     /\ syncError = Null)
  => remote = {entries[i] : i \in 1..Len(entries)}

(* ---------------------------------------------------------------------- *)
(* C26                                                                      *)
(* ---------------------------------------------------------------------- *)

(* The messages a failed mirror of a create or an update leaves *)
MirrorErrors == {ErrorText("insert"), ErrorText("update")}

(* The step in which the i-th operation, a successful refresh that the     *)
(* Retry button started, settles as the only operation in flight while     *)
(* the error of a failed create or update is showing                       *)
RetrySettles(i) ==
  /\ variant = "sync"
  /\ net[i].kind = "select" /\ net[i].phase = "ok"
  /\ net[i].cap = <<"Retry">>
  /\ net' = RemoveAt(net, i)
  /\ Len(net) = 1
  /\ EffectiveAt(now').syncError \in MirrorErrors

(* C26: in the sync variant a create or update whose remote mirror failed  *)
(* is not lost by recovery: when the retry (refreshEntries) succeeds, the  *)
(* entries of the collection are still in it, with the content they had.   *)
C26_RetryKeepsLocal ==
  [][\A i \in 1..Len(net) :
       RetrySettles(i) =>
         LET before == EffectiveAt(now').entries
             after == EffectiveNext.entries
         IN  \A j \in 1..Len(before) :
               \E k \in 1..Len(after) : after[k] = before[j]]_vars

(* ---------------------------------------------------------------------- *)
(* C27                                                                      *)
(* ---------------------------------------------------------------------- *)

(* C27: in every reachable state of every variant selectedId is null or    *)
(* the id of an entry of the collection.                                   *)
C27_SelectionInCollection ==
  selectedId = NoId \/ selectedId \in Ids(entries)

-----------------------------------------------------------------------------
(* The Editor component on top of the local hook (Editor.tsx 40-84): its   *)
(* entry prop is selectedEntry, onUpdate is updateEntry.  editor.edited    *)
(* holds, per entry, the edit the user made that no save has taken yet.    *)

MaxEdits == 2

(* Two entries to switch between *)
E2 == Entry(2, "t", B0, "calm", << >>, 1, 1, 0)

InitEditor ==
  /\ variant = "local" /\ supabase = FALSE /\ user = NoUser
  /\ entries = <<E2, E0>>
  /\ selectedId = NoId /\ syncingCount = 0 /\ syncError = Null
  /\ loading = FALSE
  /\ pending = << >> /\ net = << >> /\ remote = {}
  /\ now = 1 /\ nextId = 3 /\ last = NoStep /\ lastEdit = << >> /\ calls = 0
  /\ storage = Stored(entries) /\ editor = NoEditor

(* selectedEntry of the state st: entries.find(e => e.id === selectedId) *)
selectedEntry(st) ==
  IF st.selectedId \in Ids(st.entries)
  THEN <<st.entries[CHOOSE i \in 1..Len(st.entries) :
                      /\ st.entries[i].id = st.selectedId
                      /\ \A j \in 1..(i - 1) : st.entries[j].id # st.selectedId]>>
  ELSE << >>

(* The effects of the Editor after a render with entry prop e (<< >> is    *)
(* null).  When entry?.id has changed, the sync-state effect loads the     *)
(* fields of the entry and the debounce effect's cleanup clears the timer; *)
(* the effect sets a new one if there is an entry.  Otherwise no           *)
(* dependency has changed and nothing runs.                                *)
EditorEffects(e) ==
  LET id == IF e = << >> THEN NoId ELSE e[1].id
  IN  IF id = editor.id THEN editor
      ELSE IF e = << >>
      THEN [editor EXCEPT !.id = NoId, !.title = "", !.body = B0,
                          !.mood = Undefined, !.tags = << >>, !.timer = FALSE]
      ELSE [editor EXCEPT !.id = id, !.title = e[1].title, !.body = e[1].body,
                          !.mood = Get(e[1], "mood", Undefined),
                          !.tags = e[1].tags, !.timer = TRUE]

(* A render of the page: the hook's state is committed and the Editor's    *)
(* effects run                                                             *)
RenderPage ==
  /\ RenderStore
  /\ editor' = EditorEffects(selectedEntry(Effective))

(* The user types in the body: setBody, and the debounce effect clears the *)
(* timer and sets it again                                                 *)
EditBody(body) ==
  /\ editor.id # NoId
  /\ editor.edits < MaxEdits
  /\ body # editor.body
  /\ editor' = [editor EXCEPT
                  !.body = body, !.timer = TRUE, !.edits = @ + 1,
                  !.edited = {x \in @ : x.id # editor.id}
                             \cup {[id |-> editor.id, body |-> body]}]
  /\ last' = NoStep
  /\ UNCHANGED <<variant, supabase, user, entries, selectedId, syncingCount,
                 syncError, loading, pending, net, remote, now, nextId,
                 lastEdit, calls, storage>>

(* title.trim() || 'Untitled entry' *)
TitleAtSave(title) == IF title = "" THEN "Untitled entry" ELSE title

(* The 800 ms timer fires: onUpdate(entry.id, {title, body, mood, tags})   *)
(* with the values of the render that set it                               *)
TimerFires ==
  /\ editor.timer
  /\ UpdateEntryRuns(editor.id,
                     [title |-> TitleAtSave(editor.title), body |-> editor.body,
                      mood |-> editor.mood, tags |-> editor.tags])
  /\ editor' = [editor EXCEPT
                  !.timer = FALSE,
                  !.edited = {x \in @ : ~(x.id = editor.id /\ x.body = editor.body)}]
  /\ calls' = calls

NextEditor ==
  \/ \E id \in Ids(entries) : SetSelectedId(id)
  \/ \E body \in Bodies : EditBody(body)
  \/ TimerFires
  \/ RenderPage
  \/ Tick

SpecEditor == InitEditor /\ [][NextEditor]_vars

(* The timer fires when it is set and left alone; React renders *)
SpecEditorLive ==
  SpecEditor /\ WF_vars(TimerFires) /\ WF_vars(RenderPage)

(* ---------------------------------------------------------------------- *)
(* C28                                                                      *)
(* ---------------------------------------------------------------------- *)

(* C28: every edit made in the editor is eventually passed to updateEntry  *)
(* for the same entry (the timer fires once the user stops editing and     *)
(* saves the latest values), also when the selection changes before the    *)
(* timer fires.                                                            *)
C28_EditsAreSaved == (editor.edited # {}) ~> (editor.edited = {})
(* ---------------------------------------------------------------------- *)
(* C29                                                                      *)
(* ---------------------------------------------------------------------- *)

(* The entry and the row carry the same title, body, mood, tags and word   *)
(* count                                                                    *)
SameContent(e, r) ==
  /\ e.title = r.title
  /\ e.body = r.body
  /\ e.mood = r.mood
  /\ e.tags = r.tags
  /\ e.wordCount = r.wordCount

(* The remote update of entry id has succeeded and updateEntry resumes,    *)
(* with no other remote operation in flight                                 *)
RemoteUpdateResumes(i) ==
  /\ SettleRemote(i)
  /\ net[i].kind = "raUpdate"
  /\ net[i].phase = "ok"
  /\ Len(net) = 1

(* No other write came between: the row holds what the update wrote, and   *)
(* in the columns the update did not write it holds what the entry held    *)
(* when updateEntry resumed                                                 *)
OnlyThisWrite(e, r, updates) ==
  \A k \in {"title", "body", "mood", "tags", "wordCount"} :
    IF k \in DOMAIN DbUpdates(updates)
    THEN r[k] = DbUpdates(updates)[k]
    ELSE r[k] = e[k]

(* C29: in the remote variant, once updateEntry has resumed after a        *)
(* successful remote update that no other write interfered with, the      *)
(* entry in memory and its row in the table agree on title, body, mood,    *)
(* tags and word count, for every partial update, one that clears the mood *)
(* included.                                                                *)
C29_EntryMatchesRow ==
  [][\A i \in 1..Len(net) :
       RemoteUpdateResumes(i) =>
         \A k \in 1..Len(Effective.entries) :
           \A r \in remote :
             (/\ Effective.entries[k].id = net[i].id
              /\ r.id = net[i].id /\ r.user_id = net[i].cap
              /\ OnlyThisWrite(Effective.entries[k], r, net[i].data)
              /\ k <= Len(EffectiveNext.entries)
              /\ EffectiveNext.entries[k].id = net[i].id)
               => SameContent(EffectiveNext.entries[k], r)]_vars

(* ---------------------------------------------------------------------- *)
(* C30                                                                      *)
(* ---------------------------------------------------------------------- *)

(* importData resumes after its remote write (the upsert of the sync       *)
(* variant, the insert of the remote variant) has failed                    *)
FailedImportResumes(i) ==
  /\ net[i].kind \in {"upsert", "raImport"}
  /\ net[i].phase = "err"
  /\ SettleSync(i) \/ SettleRemote(i)

(* C30: in the variants with a remote store, when the remote write of an   *)
(* import has failed and importData resumes, the promise rejects and the   *)
(* collection is left as it was (no imported entry is merged); in the sync *)
(* variant the count of operations in flight goes down by one, and is 0    *)
(* when no other remote operation is outstanding.                           *)
C30_FailedImportMergesNothing ==
  [][\A i \in 1..Len(net) :
       FailedImportResumes(i) =>
         /\ last'.op = "importRejected"
         /\ EffectiveNext.entries = Effective.entries
         /\ variant = "sync" =>
              /\ EffectiveNext.syncingCount = Effective.syncingCount - 1
              /\ OutstandingIn(net') = 0 => EffectiveNext.syncingCount = 0]_vars

(* C30 witness: the one call made was an import, its upsert was sent and   *)
(* has failed (its endSync is queued after that of the initial read), the  *)
(* promise is rejected and the collection is the one the session started   *)
(* with                                                                     *)
C30_Witness ==
  /\ variant = "sync"
  /\ calls = 1
  /\ net = << >>
  /\ last.op = "importRejected"
  /\ Cardinality({i \in 1..Len(pending) : pending[i].kind = "endSync"}) = 2
  /\ Effective.entries = entries
  /\ Effective.syncingCount = 0

=============================================================================
